---- MODULE Spec2Model ----
(***************************************************************************)
(* A model of the hook-dispatch engine: HookCaller (_hooks.py), the        *)
(* multicall engine (_callers.py), Result (_result.py) and the plugin      *)
(* registry that drives them.                                              *)
(*                                                                         *)
(* One HookCaller is modelled.  Python lists are sequences; list indices   *)
(* are kept 0-based as in the source and converted where a sequence is     *)
(* indexed.  Python values are naturals, None is 0.  An exception is a     *)
(* record [type, msg]; NoExc stands for "no exception".                    *)
(***************************************************************************)
EXTENDS Integers, Sequences, FiniteSets, TLC

VARIABLES
    hookimpls,      \* HookCaller._hookimpls
    spec,           \* HookCaller.spec (NoSpec when None)
    call_history,   \* HookCaller._call_history (NoHistory when None)
    name2plugin,    \* registry: set of <<name, plugin>>
    op,             \* the operation performed last and its inputs
    outcome,        \* what the last operation returned or raised
    dispatches,     \* the _hookexec calls the last operation made
    invoked,        \* the plugin code the last operation ran, in order
    warned,         \* the diagnostics the last operation emitted
    called_back,    \* the result callbacks the last operation invoked
    box,            \* a Result object
    work,           \* what the Result was last given: the outcome of the callable
                    \* of from_call, the argument of force_result/force_exception
    subset,         \* a _SubsetHookCaller of the HookCaller (NoSubset when none)
    frame,          \* a generator made by run_old_style_hookwrapper
    running,        \* the call whose list was copied and not yet dispatched
    project_src,    \* harness: the files of the project source directory
    backup_dir,     \* harness: the files of the backup directory
    iteration       \* harness: where process_iteration is, and its locals

vars == <<hookimpls, spec, call_history, name2plugin, op, outcome,
          dispatches, invoked, warned, called_back, box, work, subset,
          frame, running, project_src, backup_dir, iteration>>

harnessVars == <<project_src, backup_dir, iteration>>

callerVars == <<hookimpls, spec, call_history, name2plugin, op, outcome,
                dispatches, invoked, warned, called_back>>

resultVars == <<box, work>>

----------------------------------------------------------------------------
(* Bounds *)

MaxPlugins == 2
MaxHistory == 1
MaxExtras == 2
MaxValue == 2
MaxImpls == 3
MaxLog == 2

----------------------------------------------------------------------------
(* Values, exceptions, outcomes *)

None == 0

NoExc == [type |-> "None", msg |-> ""]

Exc(type, msg) == [type |-> type, msg |-> msg]

\* A returned object: a list (items) or a scalar (items = <<v>>).
ListValue(items) == [list |-> TRUE, items |-> items]

ScalarValue(v) == [list |-> FALSE, items |-> <<v>>]

Returned(v) == [exc |-> NoExc, result |-> v]

Raised(e) == [exc |-> e, result |-> ScalarValue(None)]

NoSpec == [present |-> FALSE, argnames |-> <<>>, firstresult |-> FALSE,
           historic |-> FALSE]

NoHistory == [present |-> FALSE, log |-> <<>>]

NoPlugin == 0

NoCallback == 0

NoSubset == [present |-> FALSE, remove_plugins |-> {}]

Range(s) == {s[i] : i \in 1..Len(s)}

\* list.insert(i, e) with a 0-based index i in 0..len(list)
Insert(list, i, e) ==
    SubSeq(list, 1, i) \o <<e>> \o SubSeq(list, i + 1, Len(list))

\* del list[i] with a 0-based index i
Delete(list, i) == SubSeq(list, 1, i) \o SubSeq(list, i + 2, Len(list))

Reversed(list) == [i \in 1..Len(list) |-> list[Len(list) + 1 - i]]

----------------------------------------------------------------------------
(* HookImpl *)

\* HookImpl.__init__: the flags are copied from the options; body is what
\* the function does when it is run.
HookImpl(plugin, function, argnames, opts, body) ==
    [plugin |-> plugin, function |-> function, argnames |-> argnames,
     wrapper |-> opts.wrapper, hookwrapper |-> opts.hookwrapper,
     tryfirst |-> opts.tryfirst, trylast |-> opts.trylast, body |-> body]

Opts(wrapper, hookwrapper, tryfirst, trylast) ==
    [wrapper |-> wrapper, hookwrapper |-> hookwrapper,
     tryfirst |-> tryfirst, trylast |-> trylast]

IsWrapperClass(h) == h.hookwrapper \/ h.wrapper

----------------------------------------------------------------------------
(* HookCaller._add_hookimpl *)

\* the index of the first wrapper-class element, len(list) if there is none
SplitPoint(impls) ==
    LET W == {i \in 0..(Len(impls) - 1) : IsWrapperClass(impls[i + 1])}
    IN  IF W = {} THEN Len(impls)
        ELSE CHOOSE i \in W : \A j \in W : i <= j

RECURSIVE SkipTryfirst(_, _, _)
\* while i >= start and impls[i].tryfirst: i -= 1
SkipTryfirst(impls, i, start) ==
    IF i >= start /\ impls[i + 1].tryfirst
    THEN SkipTryfirst(impls, i - 1, start)
    ELSE i

\* an insertion that takes the whole list for the region of every class
add_hookimpl_one_region(impls, h) ==
    IF h.tryfirst THEN Insert(impls, 0, h)
    ELSE IF h.trylast THEN Insert(impls, Len(impls), h)
    ELSE Insert(impls, SkipTryfirst(impls, Len(impls) - 1, 0) + 1, h)

add_hookimpl(impls, h) ==
    LET splitpoint == SplitPoint(impls)
        start == IF IsWrapperClass(h) THEN splitpoint ELSE 0
        end == IF IsWrapperClass(h) THEN Len(impls) ELSE splitpoint
    IN  IF h.tryfirst THEN Insert(impls, start, h)
        ELSE IF h.trylast THEN Insert(impls, end, h)
        ELSE Insert(impls, SkipTryfirst(impls, end - 1, start) + 1, h)

----------------------------------------------------------------------------
(* HookCaller._remove_plugin *)

MatchingIndexes(impls, plugin) ==
    {i \in 0..(Len(impls) - 1) : impls[i + 1].plugin = plugin}

\* _remove_plugin if it deleted every implementation of the plugin
remove_every_match(impls, plugin) ==
    SelectSeq(impls, LAMBDA h : h.plugin # plugin)

\* deletes the first implementation of the plugin; the caller checks that
\* there is one (ValueError otherwise)
remove_plugin(impls, plugin) ==
    LET M == MatchingIndexes(impls, plugin)
    IN  Delete(impls, CHOOSE i \in M : \A j \in M : i <= j)

----------------------------------------------------------------------------
(* Result (_result.py) *)

NoTraceback == "None"

\* exception.__traceback__
TracebackOf(e) == IF e = NoExc THEN NoTraceback ELSE "traceback"

\* Result.__init__
Result(result, exception) ==
    [result |-> result, exception |-> exception,
     traceback |-> IF exception # NoExc THEN TracebackOf(exception)
                   ELSE NoTraceback]

\* Result.excinfo
excinfo(r) ==
    IF r.exception = NoExc THEN <<>>
    ELSE <<r.exception.type, r.exception, r.traceback>>

\* from_call if it lost the exception it caught
from_call_dropping_exception(func) ==
    IF func.exc # NoExc THEN Result(ScalarValue(None), NoExc)
    ELSE Result(func.result, NoExc)

\* Result.from_call: func is [exc, result], what running it produces
from_call(func) ==
    IF func.exc # NoExc THEN Result(ScalarValue(None), func.exc)
    ELSE Result(func.result, NoExc)

\* Result.force_result
force_result(r, result) ==
    [r EXCEPT !.result = result, !.exception = NoExc,
              !.traceback = NoTraceback]

\* force_exception if it kept the value the Result held
force_exception_keeping_result(r, exception) ==
    [r EXCEPT !.exception = exception,
              !.traceback = IF exception # NoExc THEN TracebackOf(exception)
                            ELSE NoTraceback]

\* Result.force_exception
force_exception(r, exception) ==
    [r EXCEPT !.result = ScalarValue(None), !.exception = exception,
              !.traceback = IF exception # NoExc THEN TracebackOf(exception)
                            ELSE NoTraceback]

\* Result.get_result: what the call returns or raises
get_result(r) ==
    IF r.exception = NoExc THEN Returned(r.result) ELSE Raised(r.exception)

----------------------------------------------------------------------------
(* The multicall engine (_callers.py) *)

\* what plugin code raises when its body says so
FunctionError == Exc("ValueError", "boom")

TeardownError == Exc("ValueError", "teardown")

DidNotYield == Exc("RuntimeError", "did not yield")

SecondYield == Exc("RuntimeError", "has second yield")

\* a diagnostic: warnings.warn in _verify_all_args_are_provided
MissingArgsWarning(names) ==
    [kind |-> "missing_args", names |-> names, plugin |-> NoPlugin]

\* _warn_teardown_exception
TeardownWarning(h) ==
    [kind |-> "teardown", names |-> <<>>, plugin |-> h.plugin]

Event(function, phase, kwargs) ==
    [function |-> function, phase |-> phase, kwargs |-> kwargs]

\* the number of positional parameters each strategy function declares
StrategyParams(key) ==
    CASE key = "hookwrapper" -> 4
      [] key = "wrapper" -> 4
      [] key = "regular" -> 5

\* the number of positional arguments _multicall passes to a strategy
StrategyCallArgs == 6

\* a choice of strategy that tests the wrapper flag first
StrategyKeyWrapperFirst(h) ==
    IF h.wrapper THEN "wrapper"
    ELSE IF h.hookwrapper THEN "hookwrapper" ELSE "regular"

StrategyKey(h) ==
    IF h.hookwrapper THEN "hookwrapper"
    ELSE IF h.wrapper THEN "wrapper" ELSE "regular"

\* the first declared argument name missing from the call, as an exception
BindError(h, kwargs) ==
    LET M == {i \in 1..Len(h.argnames) : h.argnames[i] \notin DOMAIN kwargs}
    IN  IF M = {} THEN NoExc
        ELSE Exc("HookCallError",
                 h.argnames[CHOOSE i \in M : \A j \in M : i <= j])

\* _strategy_regular
strategy_regular(h, kwargs, firstresult, st) ==
    LET ran == [st EXCEPT !.invoked =
                    Append(@, Event(h.function, "call", kwargs))]
    IN  IF h.body.kind = "raise"
        THEN [ran EXCEPT !.exception = FunctionError, !.stop = TRUE]
        ELSE IF h.body.val # None
        THEN [ran EXCEPT !.results = Append(@, h.body.val),
                         !.stop = firstresult]
        ELSE ran

\* _strategy_wrapper and _strategy_hookwrapper (with the first half of
\* run_old_style_hookwrapper): run the frame to its first suspend point
strategy_wrapper(h, kwargs, st) ==
    LET ran == [st EXCEPT !.invoked =
                    Append(@, Event(h.function, "pre", kwargs))]
    IN  IF h.body.kind = "noyield"
        THEN [ran EXCEPT !.exception = DidNotYield, !.stop = TRUE]
        ELSE [ran EXCEPT !.teardowns = Append(@, h)]

\* STRATEGY_MAP[strategy_key](hook_impl, hook_name, args, teardowns,
\*                            results, firstresult)
call_strategy(h, kwargs, firstresult, st) ==
    LET key == StrategyKey(h)
    IN  IF StrategyParams(key) # StrategyCallArgs
        THEN [st EXCEPT !.exception = Exc("TypeError", key), !.stop = TRUE]
        ELSE IF key = "regular"
        THEN strategy_regular(h, kwargs, firstresult, st)
        ELSE strategy_wrapper(h, kwargs, st)

\* one pass of the loop over reversed(hook_impls)
setup_step(h, kwargs, firstresult, st) ==
    IF BindError(h, kwargs) # NoExc
    THEN [st EXCEPT !.exception = BindError(h, kwargs), !.stop = TRUE]
    ELSE call_strategy(h, kwargs, firstresult, st)

RECURSIVE setup_loop(_, _, _, _, _)
\* i is the 1-based position of the implementation reached next
setup_loop(impls, i, kwargs, firstresult, st) ==
    IF i = 0 \/ st.stop THEN st
    ELSE setup_loop(impls, i - 1, kwargs, firstresult,
                    setup_step(impls[i], kwargs, firstresult, st))

\* resuming a new-style wrapper frame: teardown.throw / teardown.send
resume_wrapper(h, kwargs, t) ==
    LET ran == [t EXCEPT !.invoked =
                    Append(@, Event(h.function, "post", kwargs))]
        k == h.body.kind
    IN  CASE k = "twoyield" ->
                [ran EXCEPT !.escaped = SecondYield]
          [] k = "raise_post" ->
                [ran EXCEPT !.exception = TeardownError]
          [] k = "force" ->
                [ran EXCEPT !.result = ScalarValue(h.body.val),
                            !.exception = NoExc]
          [] k = "plain" ->
                IF t.exception # NoExc THEN ran
                ELSE [ran EXCEPT !.result = ScalarValue(None)]
          [] OTHER -> ran

\* a second half of run_old_style_hookwrapper that swallows what the
\* post-suspend code raises
resume_hookwrapper_swallowing(h, kwargs, t) ==
    LET ran == [t EXCEPT !.invoked =
                    Append(@, Event(h.function, "post", kwargs))]
    IN  IF h.body.kind = "raise_post"
        THEN [ran EXCEPT !.warned = Append(@, TeardownWarning(h))]
        ELSE ran

\* resuming a legacy frame: the second half of run_old_style_hookwrapper
resume_hookwrapper(h, kwargs, t) ==
    LET ran == [t EXCEPT !.invoked =
                    Append(@, Event(h.function, "post", kwargs))]
        k == h.body.kind
        result == IF t.exception # NoExc
                  THEN Result(ScalarValue(None), t.exception)
                  ELSE Result(t.result, NoExc)
        after == IF k = "force"
                 THEN force_result(result, ScalarValue(h.body.val))
                 ELSE result
    IN  CASE k = "twoyield" ->
                [ran EXCEPT !.exception = SecondYield]
          [] k = "raise_post" ->
                [ran EXCEPT !.exception = TeardownError,
                            !.warned = Append(@, TeardownWarning(h))]
          [] OTHER ->
                [ran EXCEPT !.result = get_result(after).result,
                            !.exception = get_result(after).exc]

RECURSIVE teardown_loop(_, _, _, _)
\* for teardown in reversed(teardowns); i is the 1-based position of the
\* frame resumed next
teardown_loop(teardowns, i, kwargs, t) ==
    IF i = 0 \/ t.escaped # NoExc THEN t
    ELSE teardown_loop(teardowns, i - 1, kwargs,
            IF teardowns[i].hookwrapper
            THEN resume_hookwrapper(teardowns[i], kwargs, t)
            ELSE resume_wrapper(teardowns[i], kwargs, t))

\* _multicall: [exc, result] as returned or raised, with the plugin code
\* that ran and the teardown diagnostics that were emitted
multicall(hook_impls, kwargs, firstresult) ==
    LET st == setup_loop(hook_impls, Len(hook_impls), kwargs, firstresult,
                  [results |-> <<>>, teardowns |-> <<>>, exception |-> NoExc,
                   invoked |-> <<>>, stop |-> FALSE])
        result == IF firstresult
                  THEN ScalarValue(IF st.results # <<>> THEN st.results[1]
                                   ELSE None)
                  ELSE ListValue(st.results)
        t == teardown_loop(st.teardowns, Len(st.teardowns), kwargs,
                  [result |-> result, exception |-> st.exception,
                   invoked |-> st.invoked, warned |-> <<>>,
                   escaped |-> NoExc])
    IN  [exc |-> IF t.escaped # NoExc THEN t.escaped ELSE t.exception,
         result |-> IF t.escaped # NoExc \/ t.exception # NoExc
                    THEN ScalarValue(None) ELSE t.result,
         invoked |-> t.invoked,
         warned |-> t.warned]

----------------------------------------------------------------------------
(* HookCaller (_hooks.py): specification, calls *)

\* is_historic if it never saw a history
is_historic_never(history) == FALSE

\* HookCaller.is_historic
is_historic(history) == history.present

\* HookSpec.__init__
HookSpec(argnames, firstresult, historic) ==
    [present |-> TRUE, argnames |-> argnames, firstresult |-> firstresult,
     historic |-> historic]

\* the names of the specification that the call does not give, in the
\* specification's order
NotInCall(sp, kwargs) ==
    SelectSeq(sp.argnames, LAMBDA a : a \notin DOMAIN kwargs)

\* the check if it named only the first missing argument
verify_first_missing_only(sp, kwargs) ==
    IF sp.present /\ NotInCall(sp, kwargs) # <<>>
    THEN <<MissingArgsWarning(<<NotInCall(sp, kwargs)[1]>>)>>
    ELSE <<>>

\* HookCaller._verify_all_args_are_provided: the diagnostics it emits
verify_all_args_are_provided(sp, kwargs) ==
    IF sp.present /\ NotInCall(sp, kwargs) # <<>>
    THEN <<MissingArgsWarning(NotInCall(sp, kwargs))>>
    ELSE <<>>

\* self.spec.opts.get("firstresult", False) if self.spec else False
FirstResultOf(sp) == sp.present /\ sp.firstresult

\* the dispatch function the registry gives every HookCaller
hookexec(impls, kwargs, firstresult) == multicall(impls, kwargs, firstresult)

Dispatch(impls, kwargs, firstresult) ==
    [impls |-> impls, kwargs |-> kwargs, firstresult |-> firstresult]

RECURSIVE SkipWrappersOnly(_, _)
\* the scan of call_extra if it did not step over try_first implementations
SkipWrappersOnly(impls, i) ==
    IF i >= 0 /\ IsWrapperClass(impls[i + 1])
    THEN SkipWrappersOnly(impls, i - 1)
    ELSE i

RECURSIVE SkipWrappersAndTryfirst(_, _)
\* while i >= 0 and (wrapper-class or tryfirst): i -= 1
SkipWrappersAndTryfirst(impls, i) ==
    IF i >= 0 /\ (IsWrapperClass(impls[i + 1]) \/ impls[i + 1].tryfirst)
    THEN SkipWrappersAndTryfirst(impls, i - 1)
    ELSE i

RECURSIVE splice_extras(_, _, _)
\* the loop of call_extra over methods, from the k-th method on
splice_extras(impls, methods, k) ==
    IF k > Len(methods) THEN impls
    ELSE splice_extras(
            Insert(impls, SkipWrappersAndTryfirst(impls, Len(impls) - 1) + 1,
                   methods[k]),
            methods, k + 1)

RECURSIVE apply_history(_, _, _, _)
\* the loop of _maybe_apply_history over the log, from entry i on
apply_history(log, method, i, acc) ==
    IF i > Len(log) \/ acc.exc # NoExc THEN acc
    ELSE LET m == hookexec(<<method>>, log[i].kwargs, FALSE)
             calls == m.exc = NoExc /\ m.result.items # <<>>
                      /\ log[i].cb # NoCallback
         IN  apply_history(log, method, i + 1,
                [exc |-> m.exc,
                 dispatches |-> Append(acc.dispatches,
                                  Dispatch(<<method>>, log[i].kwargs, FALSE)),
                 invoked |-> acc.invoked \o m.invoked,
                 warned |-> acc.warned \o m.warned,
                 called_back |->
                    IF calls
                    THEN Append(acc.called_back,
                                [cb |-> log[i].cb, val |-> m.result.items[1]])
                    ELSE acc.called_back])

\* HookCaller._maybe_apply_history
maybe_apply_history(history, method) ==
    LET none == [exc |-> NoExc, dispatches |-> <<>>, invoked |-> <<>>,
                 warned |-> <<>>, called_back |-> <<>>]
    IN  IF is_historic(history)
        THEN apply_history(history.log, method, 1, none)
        ELSE none

Op(name, plugin, pname, kwargs, cb, n) ==
    [name |-> name, plugin |-> plugin, pname |-> pname, kwargs |-> kwargs,
     cb |-> cb, n |-> n]

NoKwargs == [a \in {} |-> 0]

AssertionError == Exc("AssertionError", "")

\* the operation raised before it dispatched or ran anything
Failed(e) ==
    /\ outcome' = Raised(e)
    /\ dispatches' = <<>>
    /\ invoked' = <<>>
    /\ warned' = <<>>
    /\ called_back' = <<>>

\* set_specification if it created the log whatever the historic option
set_specification_always_historic(sp, history, new) ==
    IF sp.present
    THEN [exc |-> Exc("ValueError", "already registered"), spec |-> sp,
          history |-> history]
    ELSE [exc |-> NoExc, spec |-> new,
          history |-> [present |-> TRUE, log |-> <<>>]]

\* set_specification if it replaced a specification that is there
set_specification_replacing(sp, history, new) ==
    [exc |-> NoExc, spec |-> new,
     history |-> IF new.historic THEN [present |-> TRUE, log |-> <<>>]
                 ELSE history]

\* HookCaller.set_specification: the exception it raises, and the
\* specification and the history the caller has afterwards
set_specification(sp, history, new) ==
    IF sp.present
    THEN [exc |-> Exc("ValueError", "already registered"), spec |-> sp,
          history |-> history]
    ELSE [exc |-> NoExc, spec |-> new,
          history |-> IF new.historic THEN [present |-> TRUE, log |-> <<>>]
                      ELSE history]

\* 1 when the options ask for a historic first-result hook, else 0
BothFlags(firstresult, historic) == IF firstresult /\ historic THEN 1 ELSE 0

\* a declaration that leaves the marker's check out
AddHookspecsUnchecked(argnames, firstresult, historic) ==
    LET r == set_specification(spec, call_history,
                               HookSpec(argnames, firstresult, historic))
    IN  /\ op' = Op("add_hookspecs", NoPlugin, 0, NoKwargs, NoCallback,
                    BothFlags(firstresult, historic))
        /\ spec' = r.spec
        /\ call_history' = r.history
        /\ outcome' = IF r.exc # NoExc THEN Raised(r.exc)
                      ELSE Returned(ScalarValue(None))
        /\ dispatches' = <<>>
        /\ invoked' = <<>>
        /\ warned' = <<>>
        /\ called_back' = <<>>
        /\ UNCHANGED <<hookimpls, name2plugin, box, work, subset, frame,
                       running, harnessVars>>

\* HookspecMarker.__call__ followed by HookCaller.set_specification
AddHookspecs(argnames, firstresult, historic) ==
    LET r == set_specification(spec, call_history,
                               HookSpec(argnames, firstresult, historic))
    IN  /\ op' = Op("add_hookspecs", NoPlugin, 0, NoKwargs, NoCallback,
                    BothFlags(firstresult, historic))
        /\ IF historic /\ firstresult
           THEN /\ Failed(Exc("ValueError", "historic firstresult"))
                /\ UNCHANGED <<spec, call_history>>
           ELSE /\ spec' = r.spec
                /\ call_history' = r.history
                /\ outcome' = IF r.exc # NoExc THEN Raised(r.exc)
                              ELSE Returned(ScalarValue(None))
                /\ dispatches' = <<>>
                /\ invoked' = <<>>
                /\ warned' = <<>>
                /\ called_back' = <<>>
        /\ UNCHANGED <<hookimpls, name2plugin, box, work, subset, frame,
                       running, harnessVars>>

\* HookCaller.set_specification called with options built by hand
SetSpecification(argnames, firstresult, historic) ==
    LET r == set_specification(spec, call_history,
                               HookSpec(argnames, firstresult, historic))
    IN  /\ op' = Op("set_specification", NoPlugin, 0, NoKwargs, NoCallback,
                    BothFlags(firstresult, historic))
        /\ spec' = r.spec
        /\ call_history' = r.history
        /\ outcome' = IF r.exc # NoExc THEN Raised(r.exc)
                      ELSE Returned(ScalarValue(None))
        /\ dispatches' = <<>>
        /\ invoked' = <<>>
        /\ warned' = <<>>
        /\ called_back' = <<>>
        /\ UNCHANGED <<hookimpls, name2plugin, box, work, subset, frame,
                       running, harnessVars>>

\* HookCaller.__call__
Call(kwargs) ==
    /\ op' = Op("call", NoPlugin, 0, kwargs, NoCallback, 0)
    /\ IF is_historic(call_history)
       THEN Failed(AssertionError)
       ELSE LET m == hookexec(hookimpls, kwargs, FirstResultOf(spec))
            IN  /\ warned' = verify_all_args_are_provided(spec, kwargs)
                                \o m.warned
                /\ dispatches' = <<Dispatch(hookimpls, kwargs,
                                            FirstResultOf(spec))>>
                /\ invoked' = m.invoked
                /\ called_back' = <<>>
                /\ outcome' = [exc |-> m.exc, result |-> m.result]
    /\ UNCHANGED <<hookimpls, spec, call_history, name2plugin, box, work,
                   subset, frame, running, harnessVars>>

\* a call_historic that logs the call only when its dispatch succeeds,
\* and then ahead of the earlier calls
CallHistoricLoggingLate(result_callback, kwargs) ==
    /\ op' = Op("call_historic", NoPlugin, 0, kwargs, result_callback, 0)
    /\ IF ~call_history.present
       THEN /\ Failed(AssertionError)
            /\ UNCHANGED call_history
       ELSE LET m == hookexec(hookimpls, kwargs, FALSE)
            IN  /\ warned' = verify_all_args_are_provided(spec, kwargs)
                                \o m.warned
                /\ call_history' = [call_history EXCEPT !.log =
                        IF m.exc # NoExc THEN @
                        ELSE <<[kwargs |-> kwargs, cb |-> result_callback]>>
                                \o @]
                /\ dispatches' = <<Dispatch(hookimpls, kwargs, FALSE)>>
                /\ invoked' = m.invoked
                /\ outcome' = [exc |-> m.exc, result |-> ScalarValue(None)]
                /\ called_back' =
                      IF m.exc # NoExc \/ result_callback = NoCallback
                         \/ ~m.result.list
                      THEN <<>>
                      ELSE [i \in 1..Len(m.result.items) |->
                               [cb |-> result_callback,
                                val |-> m.result.items[i]]]
    /\ UNCHANGED <<hookimpls, spec, name2plugin, box, work, subset, frame,
                   running, harnessVars>>

\* HookCaller.call_historic
CallHistoric(result_callback, kwargs) ==
    /\ op' = Op("call_historic", NoPlugin, 0, kwargs, result_callback, 0)
    /\ IF ~call_history.present
       THEN /\ Failed(AssertionError)
            /\ UNCHANGED call_history
       ELSE LET m == hookexec(hookimpls, kwargs, FALSE)
            IN  /\ warned' = verify_all_args_are_provided(spec, kwargs)
                                \o m.warned
                /\ call_history' = [call_history EXCEPT !.log =
                        Append(@, [kwargs |-> kwargs, cb |-> result_callback])]
                /\ dispatches' = <<Dispatch(hookimpls, kwargs, FALSE)>>
                /\ invoked' = m.invoked
                /\ outcome' = [exc |-> m.exc, result |-> ScalarValue(None)]
                /\ called_back' =
                      IF m.exc # NoExc \/ result_callback = NoCallback
                         \/ ~m.result.list
                      THEN <<>>
                      ELSE [i \in 1..Len(m.result.items) |->
                               [cb |-> result_callback,
                                val |-> m.result.items[i]]]
    /\ UNCHANGED <<hookimpls, spec, name2plugin, box, work, subset, frame,
                   running, harnessVars>>

\* HookCaller.call_extra
CallExtra(methods, kwargs) ==
    /\ op' = Op("call_extra", NoPlugin, 0, kwargs, NoCallback, Len(methods))
    /\ IF is_historic(call_history)
       THEN Failed(AssertionError)
       ELSE LET impls == splice_extras(hookimpls, methods, 1)
                m == hookexec(impls, kwargs, FirstResultOf(spec))
            IN  /\ warned' = verify_all_args_are_provided(spec, kwargs)
                                \o m.warned
                /\ dispatches' = <<Dispatch(impls, kwargs,
                                            FirstResultOf(spec))>>
                /\ invoked' = m.invoked
                /\ called_back' = <<>>
                /\ outcome' = [exc |-> m.exc, result |-> m.result]
    /\ UNCHANGED <<hookimpls, spec, call_history, name2plugin, box, work,
                   subset, frame, running, harnessVars>>

----------------------------------------------------------------------------
(* The registry: register, unregister *)

NoName == 0

\* the name a plugin is registered under when none is given
canonical_name(plugin) == plugin

Registered(n2p) == {pr[2] : pr \in n2p}

TakenNames(n2p) == {pr[1] : pr \in n2p}

\* the check if it looked at the name only
RegisterConflictNameOnly(n2p, plugin, pname) ==
    IF pname \in TakenNames(n2p) THEN Exc("DuplicateName", "")
    ELSE NoExc

\* the conflict that makes register fail, NoExc if there is none
RegisterConflict(n2p, plugin, pname) ==
    IF pname \in TakenNames(n2p) THEN Exc("DuplicateName", "")
    ELSE IF plugin \in Registered(n2p) THEN Exc("DuplicatePlugin", "")
    ELSE NoExc

\* an implementation the registry accepts for a hook with specification sp
Verified(sp, h) ==
    /\ ~(h.wrapper /\ h.hookwrapper)
    /\ sp.present =>
          /\ Range(h.argnames) \subseteq Range(sp.argnames)
          /\ ~(sp.historic /\ IsWrapperClass(h))

\* register(plugin, name): the plugin implements the hook with one function
Register(plugin, name, opts, argnames, body) ==
    LET pname == IF name = NoName THEN canonical_name(plugin) ELSE name
        h == HookImpl(plugin, plugin, argnames, opts, body)
        r == maybe_apply_history(call_history, h)
    IN  /\ op' = Op("register", plugin, pname, NoKwargs, NoCallback, 0)
        /\ IF RegisterConflict(name2plugin, plugin, pname) # NoExc
           THEN /\ Failed(RegisterConflict(name2plugin, plugin, pname))
                /\ UNCHANGED <<hookimpls, name2plugin>>
           ELSE /\ Verified(spec, h)
                /\ name2plugin' = name2plugin \cup {<<pname, plugin>>}
                /\ hookimpls' = add_hookimpl(hookimpls, h)
                /\ outcome' = IF r.exc # NoExc THEN Raised(r.exc)
                              ELSE Returned(ScalarValue(pname))
                /\ dispatches' = r.dispatches
                /\ invoked' = r.invoked
                /\ warned' = r.warned
                /\ called_back' = r.called_back
        /\ UNCHANGED <<spec, call_history, box, work, subset, frame,
                       running, harnessVars>>

RECURSIVE remove_all(_, _)
\* _remove_plugin for every implementation of the plugin
remove_all(impls, plugin) ==
    IF MatchingIndexes(impls, plugin) = {} THEN impls
    ELSE remove_all(remove_plugin(impls, plugin), plugin)

\* unregister if it kept the name of the plugin mapped
UnregisterKeepingName(plugin) ==
    /\ op' = Op("unregister", plugin, 0, NoKwargs, NoCallback, 0)
    /\ IF plugin \notin Registered(name2plugin)
       THEN /\ outcome' = Returned(ScalarValue(None))
            /\ UNCHANGED hookimpls
       ELSE /\ hookimpls' = remove_all(hookimpls, plugin)
            /\ outcome' = Returned(ScalarValue(plugin))
    /\ dispatches' = <<>>
    /\ invoked' = <<>>
    /\ warned' = <<>>
    /\ called_back' = <<>>
    /\ UNCHANGED <<spec, call_history, name2plugin, box, work, subset, frame,
                   running, harnessVars>>

\* unregister(plugin)
Unregister(plugin) ==
    /\ op' = Op("unregister", plugin, 0, NoKwargs, NoCallback, 0)
    /\ IF plugin \notin Registered(name2plugin)
       THEN /\ outcome' = Returned(ScalarValue(None))
            /\ UNCHANGED <<hookimpls, name2plugin>>
       ELSE /\ hookimpls' = remove_all(hookimpls, plugin)
            /\ name2plugin' = {pr \in name2plugin : pr[2] # plugin}
            /\ outcome' = Returned(ScalarValue(plugin))
    /\ dispatches' = <<>>
    /\ invoked' = <<>>
    /\ warned' = <<>>
    /\ called_back' = <<>>
    /\ UNCHANGED <<spec, call_history, box, work, subset, frame,
                   running, harnessVars>>

\* get_plugin(name): the plugin registered under the name
get_plugin(n2p, name) == CHOOSE p \in Registered(n2p) : <<name, p>> \in n2p

\* unregister(name=name): the plugin is looked up by its name
UnregisterName(name) ==
    IF name \in TakenNames(name2plugin)
    THEN Unregister(get_plugin(name2plugin, name))
    ELSE /\ op' = Op("unregister", NoPlugin, name, NoKwargs, NoCallback, 0)
         /\ outcome' = Returned(ScalarValue(None))
         /\ dispatches' = <<>>
         /\ invoked' = <<>>
         /\ warned' = <<>>
         /\ called_back' = <<>>
         /\ UNCHANGED <<hookimpls, spec, call_history, name2plugin, box,
                        work, subset, frame, running, harnessVars>>

----------------------------------------------------------------------------
(* HookCaller used directly: _add_hookimpl, _remove_plugin *)

\* HookCaller._add_hookimpl(hookimpl)
AddHookimpl(h) ==
    /\ op' = Op("add_hookimpl", h.plugin, 0, NoKwargs, NoCallback, 0)
    /\ hookimpls' = add_hookimpl(hookimpls, h)
    /\ outcome' = Returned(ScalarValue(None))
    /\ dispatches' = <<>>
    /\ invoked' = <<>>
    /\ warned' = <<>>
    /\ called_back' = <<>>
    /\ UNCHANGED <<spec, call_history, name2plugin, box, work, subset, frame,
                   running, harnessVars>>

\* HookCaller._remove_plugin(plugin)
RemovePlugin(plugin) ==
    /\ op' = Op("remove_plugin", plugin, 0, NoKwargs, NoCallback, 0)
    /\ IF MatchingIndexes(hookimpls, plugin) = {}
       THEN /\ Failed(Exc("ValueError", "not found"))
            /\ UNCHANGED hookimpls
       ELSE /\ hookimpls' = remove_plugin(hookimpls, plugin)
            /\ outcome' = Returned(ScalarValue(None))
            /\ dispatches' = <<>>
            /\ invoked' = <<>>
            /\ warned' = <<>>
            /\ called_back' = <<>>
    /\ UNCHANGED <<spec, call_history, name2plugin, box, work, subset, frame,
                   running, harnessVars>>

----------------------------------------------------------------------------
(* _SubsetHookCaller: a view of the HookCaller without some plugins *)

\* the property if it did not filter
subset_hookimpls_unfiltered(impls, remove_plugins) == impls

\* _SubsetHookCaller._hookimpls: a new list at every access
subset_hookimpls(impls, remove_plugins) ==
    SelectSeq(impls, LAMBDA h : h.plugin \notin remove_plugins)

\* _SubsetHookCaller(orig, remove_plugins)
SubsetHookCaller(remove_plugins) ==
    /\ op' = Op("subset_hook_caller", NoPlugin, 0, NoKwargs, NoCallback, 0)
    /\ subset' = [present |-> TRUE, remove_plugins |-> remove_plugins]
    /\ outcome' = Returned(ScalarValue(None))
    /\ dispatches' = <<>>
    /\ invoked' = <<>>
    /\ warned' = <<>>
    /\ called_back' = <<>>
    /\ UNCHANGED <<hookimpls, spec, call_history, name2plugin, box, work,
                   frame, running, harnessVars>>

\* HookCaller.__call__ on the view
SubsetCall(kwargs) ==
    /\ op' = Op("subset_call", NoPlugin, 0, kwargs, NoCallback, 0)
    /\ IF is_historic(call_history)
       THEN Failed(AssertionError)
       ELSE LET impls == subset_hookimpls(hookimpls, subset.remove_plugins)
                m == hookexec(impls, kwargs, FirstResultOf(spec))
            IN  /\ warned' = verify_all_args_are_provided(spec, kwargs)
                                \o m.warned
                /\ dispatches' = <<Dispatch(impls, kwargs,
                                            FirstResultOf(spec))>>
                /\ invoked' = m.invoked
                /\ called_back' = <<>>
                /\ outcome' = [exc |-> m.exc, result |-> m.result]
    /\ UNCHANGED <<hookimpls, spec, call_history, name2plugin, box, work,
                   subset, frame, running, harnessVars>>

\* HookCaller.call_extra on the view
SubsetCallExtra(methods, kwargs) ==
    /\ op' = Op("subset_call_extra", NoPlugin, 0, kwargs, NoCallback,
                Len(methods))
    /\ IF is_historic(call_history)
       THEN Failed(AssertionError)
       ELSE LET impls == splice_extras(
                            subset_hookimpls(hookimpls,
                                             subset.remove_plugins),
                            methods, 1)
                m == hookexec(impls, kwargs, FirstResultOf(spec))
            IN  /\ warned' = verify_all_args_are_provided(spec, kwargs)
                                \o m.warned
                /\ dispatches' = <<Dispatch(impls, kwargs,
                                            FirstResultOf(spec))>>
                /\ invoked' = m.invoked
                /\ called_back' = <<>>
                /\ outcome' = [exc |-> m.exc, result |-> m.result]
    /\ UNCHANGED <<hookimpls, spec, call_history, name2plugin, box, work,
                   subset, frame, running, harnessVars>>

\* HookCaller._add_hookimpl on the view: the insert acts on the list the
\* property has just built, which nothing keeps
SubsetAddHookimpl(h) ==
    /\ op' = Op("subset_add_hookimpl", h.plugin, 0, NoKwargs, NoCallback, 0)
    /\ outcome' = Returned(ScalarValue(None))
    /\ dispatches' = <<>>
    /\ invoked' = <<>>
    /\ warned' = <<>>
    /\ called_back' = <<>>
    /\ UNCHANGED <<hookimpls, spec, call_history, name2plugin, box, work,
                   subset, frame, running, harnessVars>>

\* HookCaller._remove_plugin on the view: the del acts on the list the
\* property has just built
SubsetRemovePlugin(plugin) ==
    /\ op' = Op("subset_remove_plugin", plugin, 0, NoKwargs, NoCallback, 0)
    /\ IF MatchingIndexes(subset_hookimpls(hookimpls,
                                           subset.remove_plugins),
                          plugin) = {}
       THEN Failed(Exc("ValueError", "not found"))
       ELSE /\ outcome' = Returned(ScalarValue(None))
            /\ dispatches' = <<>>
            /\ invoked' = <<>>
            /\ warned' = <<>>
            /\ called_back' = <<>>
    /\ UNCHANGED <<hookimpls, spec, call_history, name2plugin, box, work,
                   subset, frame, running, harnessVars>>

----------------------------------------------------------------------------
(* run_old_style_hookwrapper driven directly, as the tests drive it *)

\* no generator was created
NoFrame ==
    [at |-> "none",
     impl |-> HookImpl(NoPlugin, NoPlugin, <<>>,
                       Opts(FALSE, TRUE, FALSE, FALSE), [kind |-> "pass",
                                                         val |-> None]),
     args |-> NoKwargs]

\* what a resumed generator ends with: the exception it raises, or the
\* value it returns (the value carried by its StopIteration)
FrameOutcome(r) ==
    [exc |-> r.exception,
     result |-> IF r.exception # NoExc THEN ScalarValue(None) ELSE r.result]

\* gen = run_old_style_hookwrapper(hook_impl, hook_name, args): creates the
\* generator and runs nothing
RunOldStyleHookwrapper(h, args) ==
    /\ op' = Op("run_old_style_hookwrapper", h.plugin, 0, args, NoCallback, 0)
    /\ frame' = [at |-> "created", impl |-> h, args |-> args]
    /\ outcome' = Returned(ScalarValue(None))
    /\ invoked' = <<>>
    /\ warned' = <<>>
    /\ dispatches' = <<>>
    /\ UNCHANGED <<hookimpls, spec, call_history, name2plugin, called_back,
                   box, work, subset, running, harnessVars>>

\* next(gen) on the new generator: runs the wrapper up to its yield
FrameNext ==
    /\ frame.at = "created"
    /\ op' = Op("frame_next", frame.impl.plugin, 0, frame.args, NoCallback, 0)
    /\ invoked' = <<Event(frame.impl.function, "pre", frame.args)>>
    /\ warned' = <<>>
    /\ IF frame.impl.body.kind = "noyield"
       THEN /\ outcome' = Raised(DidNotYield)
            /\ frame' = [frame EXCEPT !.at = "done"]
       ELSE /\ outcome' = Returned(ScalarValue(None))
            /\ frame' = [frame EXCEPT !.at = "suspended"]
    /\ UNCHANGED <<hookimpls, spec, call_history, name2plugin, called_back,
                   dispatches, box, work, subset, running, harnessVars>>

\* the suspended generator resumed with the outcome `pending'
FrameResume(name, pending) ==
    LET r == resume_hookwrapper(frame.impl, frame.args,
                [result |-> pending.result, exception |-> pending.exc,
                 invoked |-> <<>>, warned |-> <<>>, escaped |-> NoExc])
    IN  /\ frame.at = "suspended"
        /\ op' = Op(name, frame.impl.plugin, 0, frame.args, NoCallback, 0)
        /\ work' = pending
        /\ outcome' = FrameOutcome(r)
        /\ invoked' = r.invoked
        /\ warned' = r.warned
        /\ frame' = [frame EXCEPT !.at = "done"]
        /\ UNCHANGED <<hookimpls, spec, call_history, name2plugin,
                       called_back, dispatches, box, subset,
                       running, harnessVars>>

\* gen.send(res)
FrameSend(res) == FrameResume("frame_send", Returned(res))

\* gen.throw(exc)
FrameThrow(exc) == FrameResume("frame_throw", Raised(exc))

----------------------------------------------------------------------------
(* HookCaller.__call__ in two steps: the list is copied, then dispatched *)

\* no call is between its copy and its dispatch
NoRunning ==
    [active |-> FALSE, impls |-> <<>>, kwargs |-> NoKwargs,
     firstresult |-> FALSE]

\* a call that hands the list itself to the dispatch
hookimpls_alias(copied, live) == live

\* self._hookimpls.copy(): the list the dispatch is given is the one that
\* was copied, whatever the HookCaller's list is by then
hookimpls_copy(copied, live) == copied

\* HookCaller.__call__ up to the evaluation of the arguments of _hookexec
CallSnapshot(kwargs) ==
    /\ ~running.active
    /\ op' = Op("call_snapshot", NoPlugin, 0, kwargs, NoCallback, 0)
    /\ IF is_historic(call_history)
       THEN /\ Failed(AssertionError)
            /\ UNCHANGED running
       ELSE /\ running' = [active |-> TRUE, impls |-> hookimpls,
                           kwargs |-> kwargs,
                           firstresult |-> FirstResultOf(spec)]
            /\ warned' = verify_all_args_are_provided(spec, kwargs)
            /\ outcome' = Returned(ScalarValue(None))
            /\ dispatches' = <<>>
            /\ invoked' = <<>>
            /\ called_back' = <<>>
    /\ UNCHANGED <<hookimpls, spec, call_history, name2plugin, box, work,
                   subset, frame, harnessVars>>

\* the call of _hookexec that ends HookCaller.__call__
CallDispatch ==
    LET impls == hookimpls_copy(running.impls, hookimpls)
        m == hookexec(impls, running.kwargs, running.firstresult)
    IN  /\ running.active
        /\ op' = Op("call", NoPlugin, 0, running.kwargs, NoCallback, 0)
        /\ running' = NoRunning
        /\ dispatches' = <<Dispatch(impls, running.kwargs,
                                    running.firstresult)>>
        /\ warned' = m.warned
        /\ invoked' = m.invoked
        /\ called_back' = <<>>
        /\ outcome' = [exc |-> m.exc, result |-> m.result]
        /\ UNCHANGED <<hookimpls, spec, call_history, name2plugin, box, work,
                       subset, frame, harnessVars>>

----------------------------------------------------------------------------
(* The experiment harness: run_refactored_pytest.py *)

\* the files of the directories, each a sequence of path parts
HooksPy == <<"_hooks.py">>
NewPy == <<"_new.py">>
TestHooksPy == <<"tests", "test_hooks.py">>
HooksPyc == <<"__pycache__", "_hooks.pyc">>
Paths == {HooksPy, NewPy, TestHooksPy, HooksPyc}

\* a directory is a function from the paths of its files to their contents
Contents == 1..MaxValue
Trees == UNION {[d -> Contents] : d \in SUBSET Paths}
NoFiles == [path \in {} |-> 1]

\* the parts of a path
Parts(path) == {path[i] : i \in 1..Len(path)}

\* fnmatch of a name against one of the patterns of backup_project
IgnorePatterns(name) ==
    \/ name \in {"__pycache__", ".git", "test", "tests", "pathlib2.egg-info"}
    \/ name \in {"_hooks.pyc"}                                  \* "*.pyc"

\* shutil.copytree(project_dir, backup_dir, ignore=...) into a backup
\* directory that was removed first
backup_project(project_dir) ==
    LET copied == {path \in DOMAIN project_dir :
                      \A name \in Parts(path) : ~IgnorePatterns(name)}
    IN  [path \in copied |-> project_dir[path]]

\* shutil.rmtree(project_dir), then shutil.copytree(backup_dir, project_dir)
restore_project(backup, project_dir) ==
    [path \in DOMAIN backup |-> backup[path]]

\* "test" in part.lower() for some part of the path
should_skip_snapshot_path(relative_path) ==
    \E part \in Parts(relative_path) : part \in {"tests", "test_hooks.py"}

\* filename.endswith(".py")
EndsWithPy(path) ==
    path[Len(path)] \in {"_hooks.py", "_new.py", "test_hooks.py"}

\* the .py files of the code directory of an iteration, tests left out
collect_snapshot_files(code_dir) ==
    LET taken == {path \in DOMAIN code_dir :
                     EndsWithPy(path) /\ ~should_skip_snapshot_path(path)}
    IN  [path \in taken |-> code_dir[path]]

\* write each file of the snapshot that is not under tests into the
\* project; a file whose write raises is reported and left as it was
apply_changes(project_dir, files, failing) ==
    LET written == {path \in DOMAIN files :
                       "tests" \notin Parts(path) /\ path \notin failing}
    IN  [path \in DOMAIN project_dir \cup written |->
            IF path \in written THEN files[path] ELSE project_dir[path]]

\* the test run, which may leave the byte code of the imported module
\* beside it
run_pytest(project_dir, cached) ==
    IF cached /\ HooksPy \in DOMAIN project_dir
    THEN [path \in DOMAIN project_dir \cup {HooksPyc} |->
             IF path = HooksPyc THEN project_dir[HooksPy]
             ELSE project_dir[path]]
    ELSE project_dir

\* no process_iteration has been called
NoIteration ==
    [pc |-> "idle", files |-> NoFiles, entry |-> NoFiles,
     test_success |-> FALSE, exception |-> FALSE]

\* the project when the harness starts: a module and its test
InitialProject ==
    [path \in {HooksPy, TestHooksPy} |-> 1]

\* process_iteration up to the try statement: the early returns, the
\* snapshot and the backup
ProcessIterationEnter(code_exists, code_dir) ==
    LET files == collect_snapshot_files(code_dir)
    IN  /\ iteration.pc \in {"idle", "returned", "raised"}
        /\ IF ~code_exists \/ DOMAIN files = {}
           THEN /\ iteration' = [NoIteration EXCEPT !.pc = "returned",
                                                    !.entry = project_src]
                /\ UNCHANGED backup_dir
           ELSE /\ backup_dir' = backup_project(project_src)
                /\ iteration' = [NoIteration EXCEPT !.pc = "backed_up",
                                                    !.files = files,
                                                    !.entry = project_src]
        /\ UNCHANGED project_src

\* the body of the try statement: apply_changes, the diff and run_pytest;
\* raises is an exception that escapes before run_pytest is called
ProcessIterationTry(failing, raises, cached, success) ==
    LET applied == apply_changes(project_src, iteration.files, failing)
    IN  /\ iteration.pc = "backed_up"
        /\ project_src' = IF raises THEN applied
                          ELSE run_pytest(applied, cached)
        /\ iteration' = [iteration EXCEPT !.pc = "tried",
                                          !.exception = raises,
                                          !.test_success = ~raises /\ success]
        /\ UNCHANGED backup_dir

\* the finally clause, then the return or the exception passing on
ProcessIterationFinally ==
    /\ iteration.pc = "tried"
    /\ project_src' = restore_project(backup_dir, project_src)
    /\ iteration' = [iteration EXCEPT
                        !.pc = IF iteration.exception THEN "raised"
                               ELSE "returned",
                        !.files = NoFiles]
    /\ UNCHANGED backup_dir

----------------------------------------------------------------------------
(* Result operations as steps *)

\* Result.from_call(func), func being what running the callable produces
FromCall(func) ==
    /\ op' = Op("from_call", NoPlugin, 0, NoKwargs, NoCallback, 0)
    /\ work' = func
    /\ box' = from_call(func)
    /\ outcome' = Returned(ScalarValue(None))
    /\ UNCHANGED <<hookimpls, spec, call_history, name2plugin, subset, frame,
                   dispatches, invoked, warned, called_back,
                   running, harnessVars>>

\* Result(result, exception)
Construct(result, exception) ==
    /\ op' = Op("construct", NoPlugin, 0, NoKwargs, NoCallback, 0)
    /\ box' = Result(result, exception)
    /\ outcome' = Returned(ScalarValue(None))
    /\ UNCHANGED <<hookimpls, spec, call_history, name2plugin, subset, frame,
                   dispatches, invoked, warned, called_back, work,
                   running, harnessVars>>

\* result.force_result(result)
ForceResult(result) ==
    /\ op' = Op("force_result", NoPlugin, 0, NoKwargs, NoCallback, 0)
    /\ work' = Returned(result)
    /\ box' = force_result(box, result)
    /\ outcome' = Returned(ScalarValue(None))
    /\ UNCHANGED <<hookimpls, spec, call_history, name2plugin, subset, frame,
                   dispatches, invoked, warned, called_back,
                   running, harnessVars>>

\* result.force_exception(exception)
ForceException(exception) ==
    /\ op' = Op("force_exception", NoPlugin, 0, NoKwargs, NoCallback, 0)
    /\ work' = Raised(exception)
    /\ box' = force_exception(box, exception)
    /\ outcome' = Returned(ScalarValue(None))
    /\ UNCHANGED <<hookimpls, spec, call_history, name2plugin, subset, frame,
                   dispatches, invoked, warned, called_back,
                   running, harnessVars>>

GetResult ==
    /\ op' = Op("get_result", NoPlugin, 0, NoKwargs, NoCallback, 0)
    /\ outcome' = get_result(box)
    /\ UNCHANGED <<hookimpls, spec, call_history, name2plugin, subset, frame,
                   dispatches, invoked, warned, called_back, box, work,
                   running, harnessVars>>

----------------------------------------------------------------------------
(* Inputs *)

Plugins == 1..MaxPlugins

Values == 1..MaxValue

Kw(names, v) == [a \in names |-> v]

KwargsInputs == {Kw({}, 1), Kw({"x"}, 1), Kw({"y"}, 1), Kw({"x", "y"}, 2)}

SpecArgInputs == {<<"y", "x">>}

\* the declared required arguments of the hook function of a plugin
ArgnamesOf(plugin) == IF plugin % 2 = 1 THEN <<"x">> ELSE <<"y", "x">>

Body(kind, val) == [kind |-> kind, val |-> val]

Plain == Opts(FALSE, FALSE, FALSE, FALSE)

\* every kind and priority of implementation the registry accepts
OrderOpts ==
    {o \in [wrapper : BOOLEAN, hookwrapper : BOOLEAN, tryfirst : BOOLEAN,
            trylast : BOOLEAN] : ~(o.wrapper /\ o.hookwrapper)}

KindOpts == {o \in OrderOpts : ~o.tryfirst /\ ~o.trylast}

\* what the hook function of a plugin does, by kind of implementation:
\* a regular function returns a value or None, a wrapper forces a result
\* or passes the outcome through
BodyOf(plugin, opts) ==
    IF opts.wrapper \/ opts.hookwrapper
    THEN IF plugin % 2 = 1 THEN Body("force", plugin) ELSE Body("pass", None)
    ELSE IF plugin % 3 = 0 THEN Body("return", None)
         ELSE Body("return", plugin)

\* the k-th extra callable given to call_extra
Extra(k) ==
    HookImpl(NoPlugin, MaxPlugins + k, <<>>, Plain,
             Body("return", MaxPlugins + k))

Extras(n) == [k \in 1..n |-> Extra(k)]

Callbacks == {NoCallback, 1}

Exceptions == {Exc("ValueError", "a"), Exc("ValueError", "b"),
               Exc("KeyError", "a")}

\* what running a callable produces: a value or an exception
Works == {Returned(ScalarValue(v)) : v \in {None} \cup Values}
         \cup {Raised(e) : e \in Exceptions}

----------------------------------------------------------------------------
(* Specifications *)

Init ==
    /\ hookimpls = <<>>
    /\ spec = NoSpec
    /\ call_history = NoHistory
    /\ name2plugin = {}
    /\ op = Op("init", NoPlugin, 0, NoKwargs, NoCallback, 0)
    /\ outcome = Returned(ScalarValue(None))
    /\ dispatches = <<>>
    /\ invoked = <<>>
    /\ warned = <<>>
    /\ called_back = <<>>
    /\ box = Result(ScalarValue(None), NoExc)
    /\ work = Returned(ScalarValue(None))
    /\ subset = NoSubset
    /\ frame = NoFrame
    /\ running = NoRunning
    /\ project_src = InitialProject
    /\ backup_dir = NoFiles
    /\ iteration = NoIteration

\* declaring the specification of the hook
DoAddHookspecs ==
    \E a \in SpecArgInputs, fr \in BOOLEAN, hi \in BOOLEAN :
        /\ \A i \in 1..Len(hookimpls) :
              Verified(HookSpec(a, fr, hi), hookimpls[i])
        /\ AddHookspecs(a, fr, hi)

\* registering a plugin under its canonical name
DoRegister ==
    \E p \in Plugins, o \in KindOpts :
        Register(p, NoName, o, ArgnamesOf(p), BodyOf(p, o))

DoUnregister == \E p \in Plugins : Unregister(p)

DoCall == \E kw \in KwargsInputs : Call(kw)

DoCallExtra ==
    \E n \in 0..MaxExtras, kw \in KwargsInputs : CallExtra(Extras(n), kw)

DoCallHistoric ==
    \E cb \in Callbacks, kw \in KwargsInputs :
        /\ Len(call_history.log) < MaxHistory
        /\ CallHistoric(cb, kw)

Next ==
    \/ DoAddHookspecs
    \/ DoRegister
    \/ DoUnregister
    \/ DoCall
    \/ DoCallExtra
    \/ DoCallHistoric

Spec == Init /\ [][Next]_vars

----------------------------------------------------------------------------
(* Ordering: implementations of every kind and priority *)

OrderRegister ==
    \E p \in Plugins, o \in OrderOpts :
        Register(p, NoName, o, <<>>, BodyOf(p, o))

OrderCallExtra == \E n \in 0..MaxExtras : CallExtra(Extras(n), NoKwargs)

NextOrder ==
    \/ OrderRegister
    \/ DoUnregister
    \/ OrderCallExtra

SpecOrder == Init /\ [][NextOrder]_vars

----------------------------------------------------------------------------
(* Registry: plugins registered under given names *)

Names == 1..(MaxPlugins + 1)

NamedRegister ==
    \E p \in Plugins, n \in {NoName} \cup Names :
        Register(p, n, Plain, <<>>, BodyOf(p, Plain))

DoUnregisterName == \E n \in Names : UnregisterName(n)

NextRegistry ==
    \/ NamedRegister
    \/ DoUnregister
    \/ DoUnregisterName
    \/ DoCall

SpecRegistry == Init /\ [][NextRegistry]_vars

----------------------------------------------------------------------------
(* Result on its own *)

ResultInputs == {ScalarValue(v) : v \in {None} \cup Values}

DoFromCall == \E f \in Works : FromCall(f)

DoConstruct ==
    \E r \in ResultInputs, e \in {NoExc} \cup Exceptions : Construct(r, e)

DoForceResult == \E r \in ResultInputs : ForceResult(r)

DoForceException == \E e \in Exceptions : ForceException(e)

NextResult ==
    \/ DoFromCall
    \/ DoConstruct
    \/ DoForceResult
    \/ DoForceException
    \/ GetResult

SpecResult == Init /\ [][NextResult]_vars

----------------------------------------------------------------------------
(* The engine: implementations that raise, do not suspend, suspend twice *)

\* what a hook function can do, by kind of implementation
EngineBodies(plugin, opts) ==
    IF opts.wrapper \/ opts.hookwrapper
    THEN {Body("pass", None), Body("plain", None), Body("force", plugin),
          Body("noyield", None), Body("twoyield", None),
          Body("raise_post", None)}
    ELSE {Body("return", None), Body("return", plugin), Body("raise", None)}

EngineAddHookspecs == \E fr \in BOOLEAN : AddHookspecs(<<>>, fr, FALSE)

EngineRegister ==
    \E p \in Plugins, o \in KindOpts :
        \E b \in EngineBodies(p, o) : Register(p, NoName, o, <<>>, b)

EngineCall == Call(NoKwargs)

NextEngine ==
    \/ EngineAddHookspecs
    \/ EngineRegister
    \/ DoUnregister
    \/ EngineCall

SpecEngine == Init /\ [][NextEngine]_vars

----------------------------------------------------------------------------
(* The implementation list of a HookCaller that is used directly *)

\* the smallest function not in the list: every implementation added has
\* a function of its own
FreshFunction(impls) ==
    LET F == {f \in 1..(Len(impls) + 1) :
                \A i \in 1..Len(impls) : impls[i].function # f}
    IN  CHOOSE f \in F : \A g \in F : f <= g

CallerOpts == {Plain, Opts(TRUE, FALSE, FALSE, FALSE)}

DoAddHookimpl ==
    \E p \in Plugins, o \in CallerOpts :
        /\ Len(hookimpls) < MaxImpls
        /\ AddHookimpl(HookImpl(p, FreshFunction(hookimpls), <<>>, o,
                                Body("return", None)))

DoRemovePlugin == \E p \in Plugins : RemovePlugin(p)

NextCaller ==
    \/ DoAddHookimpl
    \/ DoRemovePlugin

SpecCaller == Init /\ [][NextCaller]_vars

\* the argument names a specification declares
DeclaredArgs == {<<>>, <<"x">>, <<"y", "x">>}

DeclareHookspecs ==
    \E a \in DeclaredArgs, fr \in BOOLEAN, hi \in BOOLEAN :
        AddHookspecs(a, fr, hi)

DoSetSpecification ==
    \E a \in DeclaredArgs, fr \in BOOLEAN, hi \in BOOLEAN :
        SetSpecification(a, fr, hi)

NextSpecification ==
    \/ DeclareHookspecs
    \/ DoSetSpecification
    \/ DoCall
    \/ DoCallHistoric

SpecSpecification == Init /\ [][NextSpecification]_vars

\* the kinds and priorities given to _add_hookimpl directly
PlacementOpts ==
    {o \in OrderOpts : ~(o.tryfirst /\ o.trylast)}

\* the plugin that brings the function: the plugins take turns
PluginOf(function) == ((function - 1) % MaxPlugins) + 1

DoPlaceHookimpl ==
    \E o \in PlacementOpts :
        /\ Len(hookimpls) < MaxImpls
        /\ AddHookimpl(HookImpl(PluginOf(FreshFunction(hookimpls)),
                                FreshFunction(hookimpls), <<>>, o,
                                Body("return", None)))

NextPlacement ==
    \/ DoPlaceHookimpl
    \/ DoRemovePlugin

SpecPlacement == Init /\ [][NextPlacement]_vars

\* the wrapper flags a HookImpl is created with: HookImpl.__init__ stores
\* the two as given
FlagOpts == {Opts(w, hw, FALSE, FALSE) : w \in BOOLEAN, hw \in BOOLEAN}

DoFlagAddHookimpl ==
    \E o \in FlagOpts :
        /\ Len(hookimpls) < MaxImpls
        /\ AddHookimpl(HookImpl(PluginOf(FreshFunction(hookimpls)),
                                FreshFunction(hookimpls), <<>>, o,
                                IF o.wrapper \/ o.hookwrapper
                                THEN Body("pass", None)
                                ELSE Body("return", 1)))

NextFlags ==
    \/ DoFlagAddHookimpl
    \/ DoRemovePlugin
    \/ EngineCall

SpecFlags == Init /\ [][NextFlags]_vars

\* _add_hookimpl of a regular function or of a wrapper, by another thread
\* or by plugin code, possibly while a call is under way
SnapshotAdd ==
    \E o \in CallerOpts :
        /\ Len(hookimpls) < MaxImpls
        /\ AddHookimpl(HookImpl(PluginOf(FreshFunction(hookimpls)),
                                FreshFunction(hookimpls), <<>>, o,
                                IF o.wrapper THEN Body("pass", None)
                                ELSE Body("return", 1)))

DoCallSnapshot == CallSnapshot(NoKwargs)

SnapshotCallExtra ==
    /\ ~running.active
    /\ CallExtra(Extras(MaxExtras), NoKwargs)

NextSnapshot ==
    \/ SnapshotAdd
    \/ DoRemovePlugin
    \/ DoCallSnapshot
    \/ CallDispatch
    \/ SnapshotCallExtra

SpecSnapshot == Init /\ [][NextSnapshot]_vars

\* the hook of the historic calls takes one argument
HistoryAddHookspecs == \E hi \in BOOLEAN : AddHookspecs(<<"x">>, FALSE, hi)

HistoryRegister ==
    \E p \in Plugins : Register(p, NoName, Plain, <<"x">>, BodyOf(p, Plain))

HistoryCallHistoric ==
    \E cb \in Callbacks, v \in Values :
        /\ Len(call_history.log) < MaxLog
        /\ CallHistoric(cb, Kw({"x"}, v))

HistoryCall == \E v \in Values : Call(Kw({"x"}, v))

NextHistory ==
    \/ HistoryAddHookspecs
    \/ HistoryRegister
    \/ DoUnregister
    \/ HistoryCallHistoric
    \/ HistoryCall

SpecHistory == Init /\ [][NextHistory]_vars

----------------------------------------------------------------------------
(* A view of a HookCaller whose list changes *)

\* the underlying HookCaller gets an implementation of a plugin
SubsetOrigAdd ==
    \E p \in Plugins, o \in CallerOpts :
        /\ Len(hookimpls) < MaxImpls
        /\ AddHookimpl(HookImpl(p, p, <<>>, o, Body("return", None)))

DoSubsetHookCaller == \E X \in SUBSET Plugins : SubsetHookCaller(X)

DoSubsetCall == subset.present /\ SubsetCall(NoKwargs)

DoSubsetCallExtra ==
    /\ subset.present
    /\ \E n \in 0..MaxExtras : SubsetCallExtra(Extras(n), NoKwargs)

DoSubsetAddHookimpl ==
    /\ subset.present
    /\ \E p \in Plugins, o \in CallerOpts :
          SubsetAddHookimpl(HookImpl(p, p, <<>>, o, Body("return", None)))

DoSubsetRemovePlugin ==
    subset.present /\ \E p \in Plugins : SubsetRemovePlugin(p)

NextSubset ==
    \/ SubsetOrigAdd
    \/ DoRemovePlugin
    \/ DoSubsetHookCaller
    \/ DoSubsetCall
    \/ DoSubsetCallExtra
    \/ DoSubsetAddHookimpl
    \/ DoSubsetRemovePlugin

SpecSubset == Init /\ [][NextSubset]_vars

\* the legacy wrappers a generator is created for
FrameBodies(plugin) ==
    {Body("pass", None), Body("force", plugin), Body("noyield", None),
     Body("twoyield", None), Body("raise_post", None)}

FrameImpls ==
    UNION {{HookImpl(p, p, <<"x">>, Opts(FALSE, TRUE, FALSE, FALSE), b) :
               b \in FrameBodies(p)} : p \in Plugins}

DoRunOldStyleHookwrapper ==
    \E h \in FrameImpls, v \in Values :
        RunOldStyleHookwrapper(h, Kw({"x"}, v))

DoFrameSend == \E res \in ResultInputs : FrameSend(res)

DoFrameThrow == \E exc \in Exceptions : FrameThrow(exc)

NextFrame ==
    \/ DoRunOldStyleHookwrapper
    \/ FrameNext
    \/ DoFrameSend
    \/ DoFrameThrow

SpecFrame == Init /\ [][NextFrame]_vars

----------------------------------------------------------------------------
(* Properties: ordering and dispatch *)

SameClass(a, b) == IsWrapperClass(a) = IsWrapperClass(b)

\* 0 for try_first, 1 for unflagged, 2 for try_last
PriorityRank(h) ==
    IF h.tryfirst /\ ~h.trylast THEN 0
    ELSE IF h.trylast /\ ~h.tryfirst THEN 2
    ELSE 1

OnePriority(h) == ~(h.tryfirst /\ h.trylast)

AllBound(d) ==
    \A i \in 1..Len(d.impls) :
        Range(d.impls[i].argnames) \subseteq DOMAIN d.kwargs

Overrides(h) == IsWrapperClass(h) /\ h.body.kind = "force"

RegularOf(impls) == SelectSeq(impls, LAMBDA h : ~IsWrapperClass(h))

\* the non-null values the regular implementations return, in list order
NonNullReturns(impls) ==
    LET nn == SelectSeq(RegularOf(impls), LAMBDA h : h.body.val # None)
    IN  [i \in 1..Len(nn) |-> nn[i].body.val]

IsDispatchedCall ==
    /\ op.name \in {"call", "call_extra"}
    /\ Len(dispatches) = 1

\* C2: a call that is not first-result-only returns the list of the
\* non-null return values of the regular implementations, last registered
\* first; wrappers that do not override the result contribute nothing.
C2_CollectsAllInReverse ==
    (/\ IsDispatchedCall
     /\ ~dispatches[1].firstresult
     /\ AllBound(dispatches[1])
     /\ \A i \in 1..Len(dispatches[1].impls) :
           ~Overrides(dispatches[1].impls[i]))
    => outcome = Returned(ListValue(
                    NonNullReturns(Reversed(dispatches[1].impls))))

\* the regular functions run by the last operation, in order
RegularCalls == SelectSeq(invoked, LAMBDA e : e.phase = "call")

\* the regular implementations a first-result dispatch has to run: in
\* reverse order up to and including the first that returns a value
RECURSIVE UntilFirstValue(_)
UntilFirstValue(rev) ==
    IF rev = <<>> THEN <<>>
    ELSE IF Head(rev).body.val # None THEN <<Head(rev).function>>
    ELSE <<Head(rev).function>> \o UntilFirstValue(Tail(rev))

\* C3: a first-result-only dispatch returns the first non-null value met
\* in reverse list order, or null if there is none, and runs no
\* implementation after the one that produced it.
C3_FirstResultStops ==
    (/\ IsDispatchedCall
     /\ dispatches[1].firstresult
     /\ AllBound(dispatches[1])
     /\ \A i \in 1..Len(dispatches[1].impls) :
           ~Overrides(dispatches[1].impls[i]))
    => LET rev == Reversed(dispatches[1].impls)
           vals == NonNullReturns(rev)
       IN  /\ outcome = Returned(ScalarValue(
                           IF vals = <<>> THEN None ELSE vals[1]))
           /\ [i \in 1..Len(RegularCalls) |-> RegularCalls[i].function]
                 = UntilFirstValue(RegularOf(rev))

\* the position in the list of the frame resumed last among those that
\* force a result, 0 if there is none
LastResumedOverride(impls) ==
    LET F == {i \in 1..Len(impls) : Overrides(impls[i])}
    IN  IF F = {} THEN 0 ELSE CHOOSE i \in F : \A j \in F : j <= i

\* C4: when a wrapper frame calls force_result(x) on the result it is
\* resumed with (and no frame resumed after it changes the outcome), the
\* dispatch returns x whatever the regular implementations returned.
C4_ForceResultWins ==
    (/\ IsDispatchedCall
     /\ AllBound(dispatches[1])
     /\ LastResumedOverride(dispatches[1].impls) # 0)
    => LET impls == dispatches[1].impls
       IN  impls[LastResumedOverride(impls)].hookwrapper
           => outcome = Returned(ScalarValue(
                           impls[LastResumedOverride(impls)].body.val))

\* the register operation went past the name and plugin checks
IsCompletedRegister ==
    /\ op.name = "register"
    /\ outcome.exc.type \notin {"DuplicateName", "DuplicatePlugin"}

ImplOf(plugin) ==
    hookimpls[CHOOSE i \in 1..Len(hookimpls) : hookimpls[i].plugin = plugin]

\* C5: registering an implementation on a historic hook runs it once per
\* logged call_historic, in the order of the log and with the logged
\* kwargs, and hands every non-null return value to the logged callback.
C5_ReplayOnRegister ==
    (/\ IsCompletedRegister
     /\ is_historic(call_history)
     /\ \A i \in 1..Len(call_history.log) :
           Range(ImplOf(op.plugin).argnames)
              \subseteq DOMAIN call_history.log[i].kwargs)
    => LET log == call_history.log
           h == ImplOf(op.plugin)
           heard == SelectSeq(log, LAMBDA e : e.cb # NoCallback)
       IN  /\ invoked = [i \in 1..Len(log) |->
                            Event(h.function, "call", log[i].kwargs)]
           /\ h.body.val # None =>
                 called_back = [i \in 1..Len(heard) |->
                                   [cb |-> heard[i].cb, val |-> h.body.val]]
           /\ h.body.val = None => called_back = <<>>

----------------------------------------------------------------------------
(* Properties: call_extra *)

RECURSIVE AddAll(_, _)
\* the implementations added one after the other through _add_hookimpl
AddAll(impls, new) ==
    IF new = <<>> THEN impls
    ELSE AddAll(add_hookimpl(impls, Head(new)), Tail(new))

\* the length of the longest tail of the list made of wrapper-class and
\* try_first implementations only
TailRun(impls) ==
    LET T == {k \in 0..Len(impls) :
                \A i \in (Len(impls) - k + 1)..Len(impls) :
                    IsWrapperClass(impls[i]) \/ impls[i].tryfirst}
    IN  CHOOSE k \in T : \A m \in T : m <= k

\* C6: the list call_extra dispatches is the list obtained by adding the
\* extras, in the given order, through add_implementation as unflagged
\* regular implementations; the extras stand, in the given order, right
\* before the wrapper-class and trailing try_first implementations.
C6_CallExtraAsAdded ==
    (op.name = "call_extra" /\ Len(dispatches) = 1)
    => LET d == dispatches[1].impls
           n == Len(hookimpls)
           c == n - TailRun(hookimpls)
       IN  /\ d = AddAll(hookimpls, Extras(op.n))
           /\ d = SubSeq(hookimpls, 1, c) \o Extras(op.n)
                    \o SubSeq(hookimpls, c + 1, n)

\* call_extra with two extras on a list that ends with a regular try_first
\* implementation behind another regular one
C6_Witness ==
    /\ op.name = "call_extra"
    /\ op.n = 2
    /\ Len(dispatches) = 1
    /\ Len(hookimpls) = 2
    /\ ~IsWrapperClass(hookimpls[1]) /\ ~hookimpls[1].tryfirst
    /\ ~IsWrapperClass(hookimpls[2]) /\ hookimpls[2].tryfirst

----------------------------------------------------------------------------
(* Properties: the missing-argument diagnostic *)

Absent(sp, kwargs) == {a \in Range(sp.argnames) : a \notin DOMAIN kwargs}

IndexIn(seq, a) == CHOOSE i \in 1..Len(seq) : seq[i] = a

\* the diagnostic names exactly the absent names, each once, in the order
\* in which the specification declares them
ListsAbsentInOrder(w, sp, kwargs) ==
    /\ Range(w.names) = Absent(sp, kwargs)
    /\ Len(w.names) = Cardinality(Absent(sp, kwargs))
    /\ \A i \in 1..Len(w.names), j \in 1..Len(w.names) :
          i < j => IndexIn(sp.argnames, w.names[i])
                      < IndexIn(sp.argnames, w.names[j])

MissingArgsWarnings == SelectSeq(warned, LAMBDA w : w.kind = "missing_args")

IsHookCall == op.name \in {"call", "call_extra", "call_historic"}

\* the call is of the kind the hook allows: call and call_extra on a hook
\* that is not historic, call_historic on a historic one
IsAllowedHookCall ==
    \/ op.name \in {"call", "call_extra"} /\ ~call_history.present
    \/ op.name = "call_historic" /\ call_history.present

DiagnosticAsSpecified ==
    IF spec.present /\ Absent(spec, op.kwargs) # {}
    THEN /\ Len(MissingArgsWarnings) = 1
         /\ ListsAbsentInOrder(MissingArgsWarnings[1], spec, op.kwargs)
         /\ Len(dispatches) = 1
    ELSE MissingArgsWarnings = <<>>

\* C7 as stated: every call, call_extra and call_historic that lacks a name
\* of the specification emits exactly one diagnostic naming the absent
\* names in declared order and goes on to dispatch; otherwise none.
C7_AsStated == IsHookCall => DiagnosticAsSpecified

\* C7: every call, call_extra and call_historic that the hook allows (call
\* and call_extra on a non-historic hook, call_historic on a historic one)
\* and that lacks a name of the specification emits exactly one diagnostic
\* naming the absent names in declared order and goes on to dispatch; if no
\* name is absent or there is no specification, it emits none.
C7_DiagnosticWhenAllowed == IsAllowedHookCall => DiagnosticAsSpecified

\* call_historic without both declared names
C7_Witness ==
    /\ op.name = "call_historic"
    /\ call_history.present
    /\ Cardinality(Absent(spec, op.kwargs)) = 2
    /\ Len(MissingArgsWarnings) = 1
    /\ MissingArgsWarnings[1].names = <<"y", "x">>
    /\ Len(dispatches) = 1

----------------------------------------------------------------------------
(* Properties: Result *)

\* C8: from_call never raises, and a get_result that follows it returns
\* the value the callable returned or raises the exception it raised.
C8_RoundTrip ==
    [][/\ op'.name = "from_call" => outcome'.exc = NoExc
       /\ (op.name = "from_call" /\ op'.name = "get_result")
             => outcome' = work]_vars

\* get_result after from_call of a callable that raised
C8_Witness ==
    /\ op.name = "get_result"
    /\ work.exc = Exc("KeyError", "a")
    /\ box.exception = work.exc
    /\ outcome = work

----------------------------------------------------------------------------
(* Properties: registration conflicts, historic hooks *)

NameOf(n2p, plugin) == CHOOSE n \in TakenNames(n2p) : <<n, plugin>> \in n2p

\* C9: registering a registered plugin under a second (free) name fails
\* with DuplicatePlugin, registering another plugin under a name in use
\* fails with DuplicateName, and either failure leaves the name mapping and
\* the implementation list as they were.
C9_DuplicatesRejected ==
    [][op'.name = "register" =>
          /\ (/\ op'.plugin \in Registered(name2plugin)
              /\ op'.pname \notin TakenNames(name2plugin))
             => /\ outcome'.exc.type = "DuplicatePlugin"
                /\ name2plugin' = name2plugin
                /\ hookimpls' = hookimpls
          /\ (/\ op'.pname \in TakenNames(name2plugin)
              /\ <<op'.pname, op'.plugin>> \notin name2plugin)
             => /\ outcome'.exc.type = "DuplicateName"
                /\ name2plugin' = name2plugin
                /\ hookimpls' = hookimpls]_vars

\* a registered plugin was refused under a second name
C9_Witness ==
    /\ op.name = "register"
    /\ outcome.exc.type = "DuplicatePlugin"
    /\ op.plugin \in Registered(name2plugin)
    /\ NameOf(name2plugin, op.plugin) # op.pname
    /\ Len(hookimpls) = 2

\* C10: call and call_extra on a historic hook, and call_historic on a hook
\* that is not historic, fail before anything is dispatched or run, and
\* leave the historic log and the implementation list as they were.
C10_WrongCallModeFails ==
    [][(\/ op'.name \in {"call", "call_extra"} /\ call_history.present
        \/ op'.name = "call_historic" /\ ~call_history.present)
       => /\ outcome'.exc = AssertionError
          /\ dispatches' = <<>>
          /\ invoked' = <<>>
          /\ call_history' = call_history
          /\ hookimpls' = hookimpls]_vars

\* call_extra refused on a historic hook that has a log and implementations
C10_Witness ==
    /\ op.name = "call_extra"
    /\ outcome.exc = AssertionError
    /\ call_history.present
    /\ call_history.log # <<>>
    /\ hookimpls # <<>>

----------------------------------------------------------------------------
(* Properties: failures during a dispatch *)

\* the required argument names of h that the call does not give, in the
\* order in which h declares them
MissingOf(h, kwargs) ==
    SelectSeq(h.argnames, LAMBDA a : a \notin DOMAIN kwargs)

\* the position of the implementation reached first among those that lack
\* a required argument, 0 if every implementation is given all of them
FirstUnbound(d) ==
    LET U == {i \in 1..Len(d.impls) : MissingOf(d.impls[i], d.kwargs) # <<>>}
    IN  IF U = {} THEN 0 ELSE CHOOSE i \in U : \A j \in U : j <= i

\* the implementation runs to its return or to its first suspend point
\* and lets the dispatch go on to the next one
LetsDispatchGoOn(h, firstresult) ==
    IF IsWrapperClass(h) THEN h.body.kind # "noyield"
    ELSE h.body.kind = "return" /\ (firstresult => h.body.val = None)

\* the functions the last operation entered (regular calls and the
\* pre-suspend parts of wrappers), in order
Entered ==
    LET e == SelectSeq(invoked, LAMBDA v : v.phase \in {"call", "pre"})
    IN  [k \in 1..Len(e) |-> e[k].function]

\* the functions at positions Len(impls) down to i + 1 of the list
ReachedBefore(impls, i) ==
    [k \in 1..(Len(impls) - i) |-> impls[Len(impls) + 1 - k].function]

\* C11: when a dispatch reaches an implementation that lacks a required
\* argument (every implementation after it in the list ran and let the
\* dispatch go on, and no frame replaces the outcome), the dispatch fails
\* with HookCallError naming the first absent name in declared order; the
\* implementations after it in the list have run, in reverse list order,
\* and neither it nor any implementation before it in the list has.
C11_MissingArgumentFails ==
    (/\ IsDispatchedCall
     /\ FirstUnbound(dispatches[1]) # 0
     /\ \A j \in 1..Len(dispatches[1].impls) :
           /\ ~Overrides(dispatches[1].impls[j])
           /\ j > FirstUnbound(dispatches[1])
                 => LetsDispatchGoOn(dispatches[1].impls[j],
                                     dispatches[1].firstresult))
    => LET d == dispatches[1]
           i == FirstUnbound(d)
       IN  /\ outcome.exc
                 = Exc("HookCallError", MissingOf(d.impls[i], d.kwargs)[1])
           /\ Entered = ReachedBefore(d.impls, i)

\* the wrapper frames the last operation resumed, in order
Resumed ==
    LET e == SelectSeq(invoked, LAMBDA v : v.phase = "post")
    IN  [k \in 1..Len(e) |-> e[k].function]

WrappersOf(impls) == SelectSeq(impls, LAMBDA h : IsWrapperClass(h))

FunctionsOf(impls) == [k \in 1..Len(impls) |-> impls[k].function]

\* the position of the regular implementation reached first among those
\* that raise, 0 if none does
FirstRaising(d) ==
    LET R == {i \in 1..Len(d.impls) :
                ~IsWrapperClass(d.impls[i]) /\ d.impls[i].body.kind = "raise"}
    IN  IF R = {} THEN 0 ELSE CHOOSE i \in R : \A j \in R : j <= i

\* every wrapper frame of the list suspends once and hands on the outcome
\* it is resumed with
WrappersPassThrough(impls) ==
    \A j \in 1..Len(impls) :
        IsWrapperClass(impls[j]) => impls[j].body.kind = "pass"

\* C12: when a regular implementation raises and no wrapper frame replaces
\* the outcome, no implementation before it in the list is invoked, every
\* wrapper frame (all were entered before it) is resumed, and the dispatch
\* raises that exception; when nothing raises, the dispatch returns.
C12_RegularFailureUnwinds ==
    (/\ IsDispatchedCall
     /\ AllBound(dispatches[1])
     /\ WrappersPassThrough(dispatches[1].impls))
    => LET d == dispatches[1]
           i == FirstRaising(d)
           reached == \A j \in (i + 1)..Len(d.impls) :
                         LetsDispatchGoOn(d.impls[j], d.firstresult)
       IN  /\ (i # 0 /\ reached)
                 => /\ outcome.exc = FunctionError
                    /\ Entered = ReachedBefore(d.impls, i - 1)
                    /\ Resumed = FunctionsOf(WrappersOf(d.impls))
           /\ i = 0 => outcome.exc = NoExc

----------------------------------------------------------------------------
(* Properties: wrappers around the regular implementations *)

IsDispatchedHookCall == IsHookCall /\ Len(dispatches) = 1

\* the positions in `invoked' of the events of one phase
PhasePositions(phase) == {k \in 1..Len(invoked) : invoked[k].phase = phase}

\* the positions in `invoked' of the events of one phase of one function
EventsOf(function, phase) ==
    {k \in PhasePositions(phase) : invoked[k].function = function}

FirstOfKind(d, kind) ==
    LET K == {i \in 1..Len(d.impls) :
                IsWrapperClass(d.impls[i]) /\ d.impls[i].body.kind = kind}
    IN  IF K = {} THEN 0 ELSE CHOOSE i \in K : \A j \in K : j <= i

\* the wrapper frames at positions above i suspend once and hand on the
\* outcome they are resumed with
PassThroughAfter(impls, i) ==
    \A j \in (i + 1)..Len(impls) :
        IsWrapperClass(impls[j]) /\ impls[j].body.kind = "pass"

OthersBenign(impls, i) ==
    \A j \in 1..Len(impls) :
        j # i => impls[j].body.kind \in {"return", "pass"}

\* C15: when a wrapper-class frame suspends a second time after it is
\* resumed, the dispatch raises RuntimeError "has second yield" and
\* returns no result.
C15_SecondYield ==
    (/\ IsDispatchedCall
     /\ AllBound(dispatches[1])
     /\ FirstOfKind(dispatches[1], "twoyield") # 0
     /\ OthersBenign(dispatches[1].impls,
                     FirstOfKind(dispatches[1], "twoyield")))
    => outcome = Raised(SecondYield)

\* C16: when the frame resumed last among those that complete with a
\* replacement value supplies v, and every other frame hands on what it is
\* resumed with, the dispatch returns v and raises nothing, whether the
\* regular implementations returned or raised.
C16_ReplacementValue ==
    (/\ IsDispatchedCall
     /\ AllBound(dispatches[1])
     /\ LastResumedOverride(dispatches[1].impls) # 0
     /\ \A j \in 1..Len(dispatches[1].impls) :
           dispatches[1].impls[j].body.kind
              \in {"return", "raise", "pass", "force"})
    => LET impls == dispatches[1].impls
       IN  outcome = Returned(ScalarValue(
                        impls[LastResumedOverride(impls)].body.val))

----------------------------------------------------------------------------
(* Properties: call_historic *)

\* one callback invocation per value, in order
CallbackPerValue(cb, vals) ==
    [k \in 1..Len(vals) |-> [cb |-> cb, val |-> vals[k]]]

\* C17: a call_historic that gives every implementation its arguments
\* dispatches the current implementation list with first_result_only =
\* false, so that every current implementation runs, last in the list
\* first; with a callback it invokes the callback once per element of the
\* returned list (the non-null return values, in that order), without a
\* callback it invokes none.
C17_HistoricCallbackPerResult ==
    (/\ op.name = "call_historic"
     /\ Len(dispatches) = 1
     /\ AllBound(dispatches[1]))
    => /\ dispatches[1] = Dispatch(hookimpls, op.kwargs, FALSE)
       /\ Entered = ReachedBefore(hookimpls, 0)
       /\ called_back =
             IF op.cb = NoCallback THEN <<>>
             ELSE CallbackPerValue(op.cb,
                                   NonNullReturns(Reversed(hookimpls)))

----------------------------------------------------------------------------
(* Properties: removing an implementation *)

\* the list without its element at position i
Without(impls, i) ==
    SubSeq(impls, 1, i - 1) \o SubSeq(impls, i + 1, Len(impls))

\* C18: _remove_plugin(plugin) deletes exactly one implementation of the
\* plugin and keeps every other implementation in its relative order; when
\* the list has no implementation of the plugin it fails with ValueError
\* (the NotFound condition) and the list stays as it was.
C18_RemoveExactlyOne ==
    [][op'.name = "remove_plugin" =>
          LET M == {i \in 1..Len(hookimpls) :
                      hookimpls[i].plugin = op'.plugin}
          IN  IF M = {}
              THEN /\ outcome'.exc.type = "ValueError"
                   /\ hookimpls' = hookimpls
              ELSE /\ outcome'.exc = NoExc
                   /\ \E i \in M : hookimpls' = Without(hookimpls, i)]_vars

\* one of two implementations of a plugin was removed from a list that
\* also holds an implementation of another plugin
C18_Witness ==
    /\ op.name = "remove_plugin"
    /\ outcome.exc = NoExc
    /\ Len(hookimpls) = 2
    /\ \E i \in 1..2 : hookimpls[i].plugin = op.plugin
    /\ \E i \in 1..2 : hookimpls[i].plugin # op.plugin

----------------------------------------------------------------------------
(* Properties: the specification of a hook *)

\* C19: attaching a specification to a HookCaller that has one fails, and
\* the specification, the historic status and the historic log of the
\* caller stay as they were.
C19_SpecificationOnce ==
    [][(op'.name = "add_hookspecs" /\ spec.present)
       => /\ outcome'.exc.type = "ValueError"
          /\ spec' = spec
          /\ call_history' = call_history]_vars

\* a second specification was refused on a historic hook with a logged call
C19_Witness ==
    /\ op.name = "add_hookspecs"
    /\ outcome.exc = Exc("ValueError", "already registered")
    /\ spec.present
    /\ spec.historic
    /\ call_history.log # <<>>

----------------------------------------------------------------------------
(* Properties: the two fields of a Result *)

HasBoth(r) == r.result # ScalarValue(None) /\ r.exception # NoExc

IsForce(o) == o.name \in {"force_result", "force_exception"}

\* what force_result and force_exception leave: after force_result(v) the
\* exception and excinfo are null and get_result returns v; after
\* force_exception(e) the value is cleared and get_result raises e
ForceReflected ==
    /\ op'.name = "force_result"
          => /\ box'.exception = NoExc
             /\ excinfo(box') = <<>>
             /\ box'.result = work'.result
    /\ op'.name = "force_exception"
          => /\ box'.result = ScalarValue(None)
             /\ box'.exception = work'.exc
    /\ (IsForce(op) /\ op'.name = "get_result") => outcome' = work

\* C20 as stated: after any sequence of construction, from_call,
\* force_result and force_exception a Result never has both a value and an
\* exception, and get_result reflects the last force operation.
C20_AsStated == [][~HasBoth(box') /\ ForceReflected]_vars

\* C20: from_call, force_result and force_exception always leave a Result
\* with at most one of value and exception (a Result constructed directly
\* holds the two fields it is given, which can be both), get_result
\* changes neither, and get_result reflects the last force operation:
\* after force_result(v) it returns v and exception and excinfo are null,
\* after force_exception(e) it raises e and the value is cleared.
C20_OneOutcomeUnlessConstructedWithBoth ==
    [][/\ op'.name \in {"from_call", "force_result", "force_exception"}
             => ~HasBoth(box')
       /\ op'.name = "get_result" => box' = box
       /\ ForceReflected]_vars

\* force_exception has put an exception into a Result
C20_Witness ==
    /\ op.name = "force_exception"
    /\ work = Raised(Exc("ValueError", "b"))
    /\ box.exception = Exc("ValueError", "b")
    /\ box.result = ScalarValue(None)
    /\ excinfo(box) # <<>>

----------------------------------------------------------------------------
(* Properties: the view of a HookCaller *)

IsSubsetOp(o) ==
    o.name \in {"subset_call", "subset_call_extra", "subset_add_hookimpl",
                "subset_remove_plugin"}

\* the positions of the list whose plugin is not excluded, in order
KeptPositions(impls, X) == {i \in 1..Len(impls) : impls[i].plugin \notin X}

\* `view' is `impls' without the implementations of the plugins in X, the
\* others in the same relative order
IsProjection(view, impls, X) ==
    /\ Len(view) = Cardinality(KeptPositions(impls, X))
    /\ \A k \in 1..Len(view) :
          \E i \in KeptPositions(impls, X) :
              /\ view[k] = impls[i]
              /\ Cardinality({j \in KeptPositions(impls, X) : j < i}) = k - 1

\* C21: the list a view dispatches (on call, and on call_extra before the
\* extras are spliced in) is the current list of the underlying HookCaller
\* without the implementations of the excluded plugins, in the same
\* relative order, whatever was added or removed since the view was
\* created; and call, call_extra, _add_hookimpl and _remove_plugin on the
\* view leave the underlying list as it was.
C21_SubsetIsProjection ==
    [][IsSubsetOp(op') =>
          /\ hookimpls' = hookimpls
          /\ (op'.name = "subset_call" /\ Len(dispatches') = 1)
                => IsProjection(dispatches'[1].impls, hookimpls,
                                subset.remove_plugins)
          /\ (op'.name = "subset_call_extra" /\ Len(dispatches') = 1
              /\ op'.n = 0)
                => IsProjection(dispatches'[1].impls, hookimpls,
                                subset.remove_plugins)]_vars

\* a view that excludes a plugin is called after the underlying list got
\* an implementation of that plugin and one of another plugin
C21_Witness ==
    /\ op.name = "subset_call"
    /\ Len(dispatches) = 1
    /\ Len(hookimpls) = 3
    /\ Len(dispatches[1].impls) = 1
    /\ subset.remove_plugins # {}

----------------------------------------------------------------------------
(* Properties: unregister *)

OthersOf(impls, plugin) == SelectSeq(impls, LAMBDA h : h.plugin # plugin)

\* C22: unregister of a registered plugin (given itself or by its name)
\* returns the plugin and leaves no implementation of it in the list, the
\* implementations of the other plugins in their order, and neither the
\* plugin nor its name mapped, so that both can be registered again;
\* unregister of an unknown plugin or name returns null and changes
\* nothing.
C22_UnregisterRemovesAll ==
    [][op'.name = "unregister" =>
          IF op'.plugin \in Registered(name2plugin)
          THEN LET n == NameOf(name2plugin, op'.plugin)
               IN  /\ outcome' = Returned(ScalarValue(op'.plugin))
                   /\ \A i \in 1..Len(hookimpls') :
                         hookimpls'[i].plugin # op'.plugin
                   /\ hookimpls' = OthersOf(hookimpls, op'.plugin)
                   /\ op'.plugin \notin Registered(name2plugin')
                   /\ n \notin TakenNames(name2plugin')
                   /\ name2plugin' = name2plugin \ {<<n, op'.plugin>>}
          ELSE /\ outcome' = Returned(ScalarValue(None))
               /\ hookimpls' = hookimpls
               /\ name2plugin' = name2plugin]_vars

\* a plugin registered under a name that is not its canonical one was
\* unregistered while another plugin stays registered
C22_Witness ==
    /\ op.name = "unregister"
    /\ outcome = Returned(ScalarValue(op.plugin))
    /\ op.plugin # NoPlugin
    /\ Len(hookimpls) = 1
    /\ hookimpls[1].plugin # op.plugin
    /\ name2plugin # {}

----------------------------------------------------------------------------
(* Properties: unwinding the wrapper frames *)

\* the wrappers whose pre-suspend code the last operation ran, in order
PreEntered ==
    LET e == SelectSeq(invoked, LAMBDA v : v.phase = "pre")
    IN  [k \in 1..Len(e) |-> e[k].function]

\* every implementation is given its arguments, the regular ones return
\* and do not end the dispatch early, and every wrapper frame suspends
\* once and, resumed, does what one of `kinds' says
IsUnwinding(d, kinds) ==
    /\ AllBound(d)
    /\ \A j \in 1..Len(d.impls) :
          IF IsWrapperClass(d.impls[j])
          THEN d.impls[j].body.kind \in kinds
          ELSE LetsDispatchGoOn(d.impls[j], d.firstresult)

\* the result of a dispatch in which no wrapper replaces the outcome
Provisional(d) ==
    LET vals == NonNullReturns(Reversed(d.impls))
    IN  IF d.firstresult
        THEN ScalarValue(IF vals = <<>> THEN None ELSE vals[1])
        ELSE ListValue(vals)

\* C23: wrapper frames nest: the frames are entered in reverse list order
\* and resumed in the reverse of the order in which they were entered, so
\* that the frame entered first is resumed last; the outcome is the one
\* left by the frame resumed last among those that replace it.
C23_FramesNest ==
    (/\ IsDispatchedCall
     /\ IsUnwinding(dispatches[1], {"pass", "force"})
     /\ Len(WrappersOf(dispatches[1].impls)) >= 2)
    => LET impls == dispatches[1].impls
       IN  /\ PreEntered = Reversed(FunctionsOf(WrappersOf(impls)))
           /\ Resumed = Reversed(PreEntered)
           /\ outcome = Returned(
                 IF LastResumedOverride(impls) = 0
                 THEN Provisional(dispatches[1])
                 ELSE ScalarValue(
                         impls[LastResumedOverride(impls)].body.val))

\* C24: during unwinding the frames are resumed in the order in which they
\* were pushed on the teardown stack: the frame pushed first (the wrapper
\* last in the list, which the dispatch reaches first) is resumed first.
C24_ResumedInPushOrder ==
    (/\ IsDispatchedCall
     /\ IsUnwinding(dispatches[1], {"pass"})
     /\ Len(WrappersOf(dispatches[1].impls)) >= 2)
    => Resumed = Reversed(FunctionsOf(WrappersOf(dispatches[1].impls)))

\* C25: wrapper frames (new-style or legacy) that, resumed, complete
\* without a replacement value and without raising leave the outcome as it
\* is: the dispatch returns the provisional result of the regular
\* implementations, or raises the exception one of them raised.
C25_PassThrough ==
    (/\ IsDispatchedCall
     /\ AllBound(dispatches[1])
     /\ WrappersOf(dispatches[1].impls) # <<>>
     /\ \A j \in 1..Len(dispatches[1].impls) :
           dispatches[1].impls[j].body.kind
              \in {"pass", "plain", "return", "raise"})
    => LET d == dispatches[1]
           i == FirstRaising(d)
           reached == \A j \in (i + 1)..Len(d.impls) :
                         LetsDispatchGoOn(d.impls[j], d.firstresult)
       IN  /\ (i # 0 /\ reached) => outcome = Raised(FunctionError)
           /\ (i = 0 /\ \A j \in 1..Len(d.impls) :
                           LetsDispatchGoOn(d.impls[j], d.firstresult))
                 => outcome = Returned(Provisional(d))

\* the positions of the wrappers whose post-suspend code raises
RaisingFrames(impls) ==
    {i \in 1..Len(impls) :
        IsWrapperClass(impls[i]) /\ impls[i].body.kind = "raise_post"}

\* C26: when a resumed frame raises a new exception, that exception
\* replaces the pending one: the frames still on the stack are resumed
\* (with it), and unless a frame resumed later replaces the outcome it is
\* the exception the dispatch raises.
C26_NewExceptionReplaces ==
    (/\ IsDispatchedCall
     /\ IsUnwinding(dispatches[1], {"pass", "raise_post"})
     /\ RaisingFrames(dispatches[1].impls) # {})
    => /\ outcome = Raised(TeardownError)
       /\ Resumed = FunctionsOf(WrappersOf(dispatches[1].impls))

\* C27: when the post-suspend code of a frame raises while no exception is
\* pending, the unwind is aborted: the frames still on the stack (the
\* wrappers before it in the list) are not resumed, and the dispatch
\* raises the new exception.
C27_TeardownFailureAborts ==
    (/\ IsDispatchedCall
     /\ IsUnwinding(dispatches[1], {"pass", "raise_post"})
     /\ RaisingFrames(dispatches[1].impls) # {})
    => LET impls == dispatches[1].impls
           R == RaisingFrames(impls)
           i == CHOOSE k \in R : \A j \in R : j <= k
       IN  /\ outcome = Raised(TeardownError)
           /\ Resumed = FunctionsOf(SubSeq(impls, i, Len(impls)))

\* C28: when the post-suspend code of a wrapper raises while an exception
\* raised by a regular implementation is pending, the dispatch still
\* raises the pending exception, not the one the wrapper raised.
C28_PendingExceptionSurvives ==
    (/\ IsDispatchedCall
     /\ AllBound(dispatches[1])
     /\ RaisingFrames(dispatches[1].impls) # {}
     /\ FirstRaising(dispatches[1]) # 0
     /\ \A j \in 1..Len(dispatches[1].impls) :
           /\ dispatches[1].impls[j].body.kind
                 \in {"pass", "raise_post", "return", "raise"}
           /\ j > FirstRaising(dispatches[1])
                 => LetsDispatchGoOn(dispatches[1].impls[j],
                                     dispatches[1].firstresult))
    => outcome = Raised(FunctionError)

----------------------------------------------------------------------------
(* Properties: a legacy wrapper frame on its own *)

IsFrameResume(o) == o.name \in {"frame_send", "frame_throw"}

\* C29: whenever the post-suspend code of a legacy-wrapper frame raises,
\* whether the frame was resumed with a result or with an exception,
\* exactly one teardown diagnostic naming the plugin is emitted and the
\* exception the post-suspend code raised is raised out of the frame; a
\* frame whose post-suspend code does not raise emits no diagnostic.
C29_TeardownWarnsAndReraises ==
    [][IsFrameResume(op') =>
          IF frame.impl.body.kind = "raise_post"
          THEN /\ warned' = <<TeardownWarning(frame.impl)>>
               /\ warned'[1].plugin = op'.plugin
               /\ outcome' = Raised(TeardownError)
               /\ frame'.at = "done"
          ELSE warned' = <<>>]_vars

\* a frame was resumed with a pending exception, and its post-suspend
\* code raised another one
C29_Witness ==
    /\ op.name = "frame_throw"
    /\ frame.at = "done"
    /\ frame.impl.body.kind = "raise_post"
    /\ work.exc # NoExc
    /\ work.exc # TeardownError
    /\ outcome = Raised(TeardownError)
    /\ Len(warned) = 1

----------------------------------------------------------------------------
(* Properties: where _add_hookimpl puts an unflagged implementation *)

\* position i comes before position j, in list order or, with `reverse',
\* in the order in which a dispatch reaches the implementations
Precedes(i, j, reverse) == IF reverse THEN i > j ELSE i < j

\* the implementation at position k comes after every try_first one of its
\* region and before every other one
PlacedAfterTryfirst(impls, k, reverse) ==
    \A j \in (1..Len(impls)) \ {k} :
        SameClass(impls[j], impls[k])
        => IF impls[j].tryfirst
           THEN Precedes(j, k, reverse)
           ELSE Precedes(k, j, reverse)

\* C30: _add_hookimpl of an implementation with neither tryfirst nor
\* trylast leaves it, inside its own region, after all the try_first
\* implementations of the region and before every unflagged and every
\* try_last implementation already there -- read either as positions in
\* the list or as the order in which a dispatch reaches them.
C30_UnflaggedAfterTryfirst ==
    [][(op'.name = "add_hookimpl" /\ Len(hookimpls') = Len(hookimpls) + 1)
       => LET f == FreshFunction(hookimpls)
              k == CHOOSE i \in 1..Len(hookimpls') :
                      hookimpls'[i].function = f
          IN  (~hookimpls'[k].tryfirst /\ ~hookimpls'[k].trylast)
              => \/ PlacedAfterTryfirst(hookimpls', k, FALSE)
                 \/ PlacedAfterTryfirst(hookimpls', k, TRUE)]_vars

----------------------------------------------------------------------------
(* Properties: invariants of the HookCaller *)

\* the regular implementations first, the wrapper-class ones after them
Partitioned(impls) ==
    \A i \in 1..Len(impls), j \in 1..Len(impls) :
        (i < j /\ IsWrapperClass(impls[i])) => IsWrapperClass(impls[j])

\* C31: after any sequence of _add_hookimpl and _remove_plugin the list is
\* a prefix of regular implementations followed by a suffix of
\* wrapper-class ones, and every insertion puts the new implementation
\* inside the region of its own class (after every regular one if it is
\* wrapper-class, before every wrapper-class one if it is regular) and
\* leaves the others in the order they had.
C31_RegularsBeforeWrappers ==
    [][/\ Partitioned(hookimpls')
       /\ op'.name = "add_hookimpl"
             => \E k \in 1..Len(hookimpls') :
                   /\ hookimpls'[k].function = FreshFunction(hookimpls)
                   /\ hookimpls = Without(hookimpls', k)
                   /\ \A j \in 1..Len(hookimpls') :
                         IF IsWrapperClass(hookimpls'[k])
                         THEN j > k => IsWrapperClass(hookimpls'[j])
                         ELSE j < k => ~IsWrapperClass(hookimpls'[j])]_vars

\* a regular implementation was added to a list that holds a wrapper and
\* a regular one, and a wrapper-class one after that
C31_Witness ==
    /\ op.name = "add_hookimpl"
    /\ Len(hookimpls) = 3
    /\ ~IsWrapperClass(hookimpls[1])
    /\ ~IsWrapperClass(hookimpls[2]) /\ hookimpls[2].function = 3
    /\ IsWrapperClass(hookimpls[3]) /\ hookimpls[3].function = 1

\* a specification that is historic and first-result-only
HistoricFirstresult(sp) == sp.present /\ sp.historic /\ sp.firstresult

IsRejected ==
    /\ outcome' = Raised(Exc("ValueError", "historic firstresult"))
    /\ spec' = spec
    /\ call_history' = call_history

\* C32 (as stated): no specification attached to a HookCaller is ever both
\* historic and first-result-only: giving the caller such a specification,
\* through the marker or through set_specification, is rejected with an
\* error, attaches nothing and creates no log.
C32_AsStated ==
    [][/\ ~HistoricFirstresult(spec')
       /\ (op'.name \in {"add_hookspecs", "set_specification"} /\ op'.n = 1)
             => IsRejected]_vars

\* C32 (amended): a specification declared through the hookspec marker is
\* never both historic and first-result-only: the marker raises ValueError,
\* nothing is attached and no log is created; a caller gets such a
\* specification only from set_specification called with it on a caller
\* without specification, which attaches it and creates the log.
C32_MarkerRejectsHistoricFirstresult ==
    [][/\ (op'.name = "add_hookspecs" /\ op'.n = 1) => IsRejected
       /\ (HistoricFirstresult(spec') /\ ~HistoricFirstresult(spec))
             => /\ op'.name = "set_specification"
                /\ op'.n = 1
                /\ ~spec.present
                /\ call_history' = [present |-> TRUE, log |-> <<>>]]_vars

\* a declaration of a historic first-result hook was rejected on a caller
\* that has no specification
C32_Witness ==
    /\ op.name = "add_hookspecs"
    /\ op.n = 1
    /\ outcome = Raised(Exc("ValueError", "historic firstresult"))
    /\ ~spec.present
    /\ ~call_history.present

\* an implementation with both wrapper flags set
BothWrapperFlags(h) == h.wrapper /\ h.hookwrapper

\* C33 (as stated): no HookImpl held in the list of a HookCaller has both
\* the wrapper and the hookwrapper flag set.
C33_AsStated ==
    \A i \in 1..Len(hookimpls) : ~BothWrapperFlags(hookimpls[i])

\* C33 (amended): _add_hookimpl accepts every HookImpl, one with both
\* wrapper flags included, and holds it in the wrapper-class region of the
\* list; a dispatch that reaches an implementation with both flags first
\* treats it as a legacy wrapper (the hookwrapper flag is tested first).
C33_BothFlagsHeldAsLegacyWrapper ==
    [][/\ op'.name = "add_hookimpl"
             => /\ outcome' = Returned(ScalarValue(None))
                /\ \E k \in 1..Len(hookimpls') :
                      /\ hookimpls'[k].function = FreshFunction(hookimpls)
                      /\ hookimpls = Without(hookimpls', k)
                /\ Partitioned(hookimpls')
       /\ (/\ op'.name = "call"
           /\ hookimpls # <<>>
           /\ BothWrapperFlags(hookimpls[Len(hookimpls)]))
             => /\ StrategyKey(hookimpls[Len(hookimpls)]) = "hookwrapper"
                /\ outcome' = Raised(Exc("TypeError", "hookwrapper"))]_vars

\* the hook was called while the implementation reached first has both
\* flags and a regular one is before it in the list
C33_Witness ==
    /\ op.name = "call"
    /\ Len(hookimpls) >= 2
    /\ BothWrapperFlags(hookimpls[Len(hookimpls)])
    /\ ~IsWrapperClass(hookimpls[1])
    /\ outcome = Raised(Exc("TypeError", "hookwrapper"))

----------------------------------------------------------------------------
(* Properties: the dispatch works on a copy of the list *)

----------------------------------------------------------------------------
(* Properties: the historic log and its replay *)

\* C35: the historic log is append-only: call_historic on a historic hook
\* appends exactly one (kwargs, callback) entry at the end of the log,
\* whether or not its dispatch raises, and no other operation (a
\* registration with its replay, an unregistration, a declaration, a
\* call) changes the log of a historic hook.
C35_LogAppendOnly ==
    [][IF op'.name = "call_historic" /\ call_history.present
       THEN call_history'.log
               = Append(call_history.log,
                        [kwargs |-> op'.kwargs, cb |-> op'.cb])
       ELSE call_history.present => call_history' = call_history]_vars

\* a second call was logged behind a different first one, while an
\* implementation is registered (so the dispatch of the call raised)
C35_Witness ==
    /\ op.name = "call_historic"
    /\ call_history.present
    /\ Len(call_history.log) = 2
    /\ call_history.log[1] # call_history.log[2]
    /\ call_history.log[2] = [kwargs |-> op.kwargs, cb |-> op.cb]
    /\ hookimpls # <<>>
    /\ outcome.exc # NoExc

\* C36: the replay on a late registration dispatches every logged call to
\* the newly added implementation only: it is run once per entry,
\* implementations registered earlier are not run again, and the callback
\* of an entry is invoked exactly once, with the new implementation's
\* return value, when that value is non-null, and not at all when it is
\* null or the entry has no callback.
C36_ReplayToNewImplOnly ==
    (/\ IsCompletedRegister
     /\ is_historic(call_history)
     /\ call_history.log # <<>>)
    => LET log == call_history.log
           h == ImplOf(op.plugin)
           heard == SelectSeq(log, LAMBDA e :
                       e.cb # NoCallback /\ h.body.val # None)
       IN  /\ dispatches = [i \in 1..Len(log) |->
                               Dispatch(<<h>>, log[i].kwargs, FALSE)]
           /\ invoked = [i \in 1..Len(log) |->
                            Event(h.function, "call", log[i].kwargs)]
           /\ called_back = [i \in 1..Len(heard) |->
                                [cb |-> heard[i].cb, val |-> h.body.val]]
           /\ outcome = Returned(ScalarValue(op.pname))

\* C37: call_historic records its (kwargs, callback) entry before it
\* dispatches: a call whose dispatch raised is in the log, and every
\* implementation registered afterwards is run with the kwargs of every
\* entry of the log, that one included.
C37_FailedCallIsReplayed ==
    [][/\ (op'.name = "call_historic" /\ call_history.present
           /\ outcome'.exc # NoExc)
             => /\ call_history'.log # <<>>
                /\ call_history'.log[Len(call_history'.log)]
                      = [kwargs |-> op'.kwargs, cb |-> op'.cb]
       /\ (/\ op'.name = "register"
           /\ Len(hookimpls') = Len(hookimpls) + 1
           /\ call_history.present)
             => \A i \in 1..Len(call_history.log) :
                   \E k \in 1..Len(invoked') :
                      /\ invoked'[k].function = op'.plugin
                      /\ invoked'[k].kwargs = call_history.log[i].kwargs]_vars

\* C39: a HookCaller is historic (has a log) exactly when it has a
\* specification whose historic option is true: without specification or
\* with a non-historic one it has no log, and once a specification is
\* attached neither the specification nor the status changes.
C39_HistoricIffSpecSaysSo ==
    [][/\ is_historic(call_history') <=> (spec'.present /\ spec'.historic)
       /\ spec.present
             => /\ spec' = spec
                /\ is_historic(call_history') = is_historic(call_history)]_vars

\* a second specification, non-historic, was refused on a historic hook
\* that has a call in its log
C39_Witness ==
    /\ op.name \in {"add_hookspecs", "set_specification"}
    /\ outcome = Raised(Exc("ValueError", "already registered"))
    /\ spec.present /\ spec.historic
    /\ is_historic(call_history)
    /\ call_history.log # <<>>

\* the harness processing one iteration directory after another
DoProcessIterationEnter ==
    /\ \E code_exists \in BOOLEAN, code_dir \in Trees :
           ProcessIterationEnter(code_exists, code_dir)
    /\ UNCHANGED <<callerVars, box, work, subset, frame, running>>

DoProcessIterationTry ==
    /\ \E failing \in SUBSET DOMAIN iteration.files,
          raises \in BOOLEAN, cached \in BOOLEAN, success \in BOOLEAN :
           ProcessIterationTry(failing, raises, cached, success)
    /\ UNCHANGED <<callerVars, box, work, subset, frame, running>>

DoProcessIterationFinally ==
    /\ ProcessIterationFinally
    /\ UNCHANGED <<callerVars, box, work, subset, frame, running>>

NextHarness ==
    \/ DoProcessIterationEnter
    \/ DoProcessIterationTry
    \/ DoProcessIterationFinally

SpecHarness == Init /\ [][NextHarness]_vars

\* C40: process_iteration leaves the project source tree as it was before
\* the call, the same files with the same contents, whether the tests
\* pass or fail or applying the changes raises.
C40_ProjectTreeAsBefore ==
    iteration.pc \in {"returned", "raised"}
        => project_src = iteration.entry

====
